---------------------------- MODULE Spec2Model ----------------------------
(***************************************************************************)
(* Model of the V-ZUG API client (custom_components/vzug/api/__init__.py): *)
(* the Command Executor VZugApi._command with its retry loop, and the      *)
(* aggregators built on it.                                                *)
(*                                                                         *)
(* Python values are records [t, v]: t is the Python type, v the content.  *)
(* Strings are sequences of one-character strings, dicts are functions     *)
(* from keys to values, lists are sequences.                               *)
(***************************************************************************)
EXTENDS Integers, Sequences, FiniteSets, TLC

(***************************************************************************)
(* Bounds of the model.                                                    *)
(***************************************************************************)
\* `attempts` is drawn from 0..MaxAttempts and the default
MaxAttempts == 3
\* `retry_delay` is drawn from 1..MaxRetryDelay and the default
MaxRetryDelay == 1
\* no call issues more than MaxRequests requests (caps the retry loop)
MaxRequests == 6
\* the device answers at most MaxFaults requests of one aggregator call with
\* an error status
MaxFaults == 5

(***************************************************************************)
(* Program constants.                                                      *)
(***************************************************************************)
DefaultAttempts == 5
DefaultRetryDelay == 2
UNAUTHORIZED == 401
NOT_FOUND == 404

(***************************************************************************)
(* Python values.                                                          *)
(***************************************************************************)
PyNone == [t |-> "NoneType", v |-> <<>>]
PyInt(i) == [t |-> "int", v |-> <<i>>]
PyStr(s) == [t |-> "str", v |-> s]
PyList(s) == [t |-> "list", v |-> s]
PyDict(f) == [t |-> "dict", v |-> f]

\* len(data); -1 stands for "object of this type has no len()" (TypeError)
PyLen(d) ==
    CASE d.t = "dict" -> Cardinality(DOMAIN d.v)
      [] d.t \in {"str", "list"} -> Len(d.v)
      [] OTHER -> -1

\* isinstance(data, expected_type) for expected_type in {dict, list}
IsInstance(d, expected_type) == d.t = expected_type

(***************************************************************************)
(* Exceptions.  `at` is the number of the request whose handling created   *)
(* the exception object (0: created before any request), so two errors of  *)
(* the same kind raised by different attempts are different objects.       *)
(***************************************************************************)
Exc(kind, status, msg, at) ==
    [kind |-> kind, status |-> status, msg |-> msg, at |-> at]

NoExc == Exc("none", 0, "", 0)
NoAttemptsMade == Exc("ValueError", 0, "no attempts made", 0)

(***************************************************************************)
(* The device's answers.  A body is described by its text and by what the  *)
(* two decoders make of it: resp.json() and json_repair + json.loads.      *)
(* Invalid stands for "the decoder raises".                                *)
(***************************************************************************)
Invalid == [t |-> "invalid", v |-> <<>>]

Body(text, json, repair) == [text |-> text, json |-> json, repair |-> repair]

Bodies ==
    { Body(<<>>, Invalid, Invalid),
      Body(<<"n", "u", "l", "l">>, PyNone, PyNone),
      Body(<<"{", "}">>, PyDict(<<>>), PyDict(<<>>)),
      Body(<<"{", "\"", "a", "\"", ":", "1", "}">>,
           PyDict([a |-> PyInt(1)]), PyDict([a |-> PyInt(1)])),
      Body(<<"[", "]">>, PyList(<<>>), PyList(<<>>)),
      Body(<<"[", "1", "]">>, PyList(<<PyInt(1)>>), PyList(<<PyInt(1)>>)),
      Body(<<"\"", "\"">>, PyStr(<<>>), PyStr(<<>>)),
      Body(<<"\"", "s", "\"">>, PyStr(<<"s">>), PyStr(<<"s">>)),
      Body(<<"7">>, PyInt(7), PyInt(7)),
      \* near-miss syntax the repair pass recovers
      Body(<<"{", "\"", "a", "\"", ":", "1">>, Invalid, PyDict([a |-> PyInt(1)])),
      Body(<<"[", "1", ",">>, Invalid, PyList(<<PyInt(1)>>)),
      Body(<<"{">>, Invalid, PyDict(<<>>)),
      \* not recoverable: the repair pass raises as well
      Body(<<"<", "h", "t", "m", "l", ">">>, Invalid, Invalid) }

Statuses == {200, 400, 401, 404, 500, 503}

EmptyBody == Body(<<>>, Invalid, Invalid)

Responses ==
    {[kind |-> "transport", status |-> 0, body |-> EmptyBody]}
    \cup {[kind |-> "http", status |-> 200, body |-> b] : b \in Bodies}
    \cup {[kind |-> "http", status |-> s, body |-> EmptyBody] :
             s \in Statuses \ {200}}

NoResponse == [kind |-> "none", status |-> 0, body |-> EmptyBody]

\* httpx.Response.is_success / is_server_error
IsSuccess(status) == status >= 200 /\ status <= 299
IsServerError_AnyError(status) == status >= 400
IsServerError(status) == status >= 500 /\ status <= 599


(***************************************************************************)
(* VZugApi._command.once: one request and the decoding of its answer.      *)
(* The outcome is either a returned value or a raised exception.           *)
(***************************************************************************)
Ok(v) == [ok |-> TRUE, value |-> v, exc |-> NoExc]
Raise(e) == [ok |-> FALSE, value |-> PyNone, exc |-> e]

\* The exception that leaves the handler of a failed repair: a bare `raise`
\* inside `except Exception as repair_error` re-raises the exception being
\* handled there, which is the repair pass's exception.
RepairReraise(at) == Exc("RepairError", 0, "json repair failed", at)

\* The exception resp.json() raises on an undecodable body.
OriginalDecodeError(at) == Exc("ValueError", 0, "invalid json payload", at)

\* resp.json(), then the repair pass on a non-empty undecodable body
Decode(body, at) ==
    IF body.json.t # "invalid" THEN Ok(body.json)
    ELSE IF body.text # <<>>
         THEN IF body.repair.t # "invalid" THEN Ok(body.repair)
              ELSE Raise(RepairReraise(at))
         ELSE Ok(PyNone)

CoerceNone_Never(expected_type, data) == data

\* "if we want a list and the response is null, treat that as an empty list"
CoerceNone(expected_type, data) ==
    IF expected_type = "list" /\ data.t = "NoneType" THEN PyList(<<>>) ELSE data

Validate_NoEmptyCheck(cfg, data, at) ==
    IF cfg.expected_type # "none" /\ ~IsInstance(data, cfg.expected_type)
    THEN [ok |-> FALSE, value |-> PyNone,
          exc |-> Exc("AssertionError", 0, "data type mismatch", at)]
    ELSE [ok |-> TRUE, value |-> data, exc |-> NoExc]

\* the two assertions on the decoded value
Validate(cfg, data, at) ==
    IF cfg.expected_type # "none" /\ ~IsInstance(data, cfg.expected_type)
    THEN Raise(Exc("AssertionError", 0, "data type mismatch", at))
    ELSE IF cfg.reject_empty
         THEN IF PyLen(data) = -1
              THEN Raise(Exc("TypeError", 0, "object has no len()", at))
              ELSE IF PyLen(data) > 0 THEN Ok(data)
                   ELSE Raise(Exc("AssertionError", 0, "empty response rejected", at))
         ELSE Ok(data)

\* a variant of once() that decodes and validates the body in raw mode too
Once_DecodesRaw(cfg, resp, at) ==
    IF resp.kind = "transport"
    THEN Raise(Exc("TransportError", 0, "connection failed", at))
    ELSE IF ~IsSuccess(resp.status)
    THEN Raise(Exc("HTTPStatusError", resp.status, "status error", at))
    ELSE LET d == Decode(resp.body, at)
         IN  IF d.ok THEN Validate(cfg, CoerceNone(cfg.expected_type, d.value), at)
             ELSE d

Once(cfg, resp, at) ==
    IF resp.kind = "transport"
    THEN Raise(Exc("TransportError", 0, "connection failed", at))
    ELSE IF ~IsSuccess(resp.status)
    THEN Raise(Exc("HTTPStatusError", resp.status, "status error", at))
    ELSE IF cfg.raw THEN Ok(PyStr(resp.body.text))
    ELSE LET d == Decode(resp.body, at)
         IN  IF d.ok THEN Validate(cfg, CoerceNone(cfg.expected_type, d.value), at)
             ELSE d

(***************************************************************************)
(* VZugApi._command: the retry loop around once().  The state of one call  *)
(* is a record:                                                            *)
(*   cfg            the call's arguments                                   *)
(*   pc             "loop"  at the while test                              *)
(*                  "get"   the backoff sleep is over, the request is next *)
(*                  "wait"  the request is in flight                       *)
(*                  "returned" / "raised"  the call is over                *)
(*   attempt_idx, last_exc   the loop's variables                          *)
(*   requests       the number of requests issued so far                   *)
(*   sleeps         the arguments of the asyncio.sleep calls, in order     *)
(*   fallback_calls the number of invocations of value_on_err              *)
(*   value, exc     what the call returned or raised                       *)
(*   seen           the classes of the answers handled so far              *)
(*   last_resp      the answer handled last                                *)
(***************************************************************************)
NoFallback == [t |-> "nofallback", v |-> <<>>]

Cfg(raw, expected_type, reject_empty, attempts, retry_delay, value_on_err) ==
    [raw |-> raw, expected_type |-> expected_type, reject_empty |-> reject_empty,
     attempts |-> attempts, retry_delay |-> retry_delay,
     value_on_err |-> value_on_err]

\* the state on entry of the loop
CommandStart(cfg) ==
    [cfg |-> cfg, pc |-> "loop", attempt_idx |-> 0, last_exc |-> NoAttemptsMade,
     requests |-> 0, sleeps |-> <<>>, fallback_calls |-> 0,
     value |-> PyNone, exc |-> NoExc, seen |-> {}, last_resp |-> NoResponse]

CommandDone(c) == c.pc \in {"returned", "raised"}

Backoff_Fixed(attempt_idx, retry_delay) == retry_delay

\* the argument of asyncio.sleep before an attempt
Backoff(attempt_idx, retry_delay) == attempt_idx * retry_delay

IsUnauthorized_Never(status) == FALSE

\* err.response.status_code == httpx.codes.UNAUTHORIZED
IsUnauthorized(status) == status = UNAUTHORIZED

\* The value of attempt_idx at the next while test after a recorded failure:
\* the TransportError handler ends in `continue`, which skips the increment
\* at the end of the loop body.
AttemptIdxAfter(kind, attempt_idx) ==
    IF kind = "TransportError" THEN attempt_idx ELSE attempt_idx + 1

RecordedExc_FirstWins(last_exc, e) ==
    IF last_exc = NoAttemptsMade THEN e ELSE last_exc

\* last_exc = err in every retrying except clause: the last failure wins
RecordedExc(last_exc, e) == e

\* the class of a failure, for the history `seen`
FailureClass(e) ==
    CASE e.kind = "HTTPStatusError" ->
             IF e.status = UNAUTHORIZED THEN "401"
             ELSE IF e.status >= 500 THEN "5xx" ELSE "4xx"
      [] e.kind = "TransportError" -> "transport"
      [] e.kind = "AssertionError" -> "validation"
      [] e.kind \in {"RepairError", "ValueError"} -> "decode"
      [] OTHER -> "other"

\* while attempt_idx < attempts: await asyncio.sleep(attempt_idx * retry_delay)
\* a variant of the loop that tests its condition after the first attempt
CanSleep_AtLeastOnce(c) ==
    c.pc = "loop" /\ (c.attempt_idx < c.cfg.attempts \/ c.sleeps = <<>>)

CanSleep(c) == c.pc = "loop" /\ c.attempt_idx < c.cfg.attempts
DoSleep(c) ==
    [c EXCEPT !.pc = "get",
              !.sleeps = Append(@, Backoff(c.attempt_idx, c.cfg.retry_delay))]

\* self._client.get(url, params=final_params) is issued
CanGet(c) == c.pc = "get"
DoGet(c) == [c EXCEPT !.pc = "wait", !.requests = @ + 1]

\* the answer arrives: the rest of once() and the except clauses
CanRespond(c) == c.pc = "wait"
DoRespond(c, resp) ==
    LET o == Once(c.cfg, resp, c.requests)
        e == o.exc
        retry == [c EXCEPT !.pc = "loop", !.last_exc = RecordedExc(@, e),
                           !.attempt_idx = AttemptIdxAfter(e.kind, @),
                           !.seen = @ \cup {FailureClass(e)},
                           !.last_resp = resp]
        raise(x) == [c EXCEPT !.pc = "raised", !.exc = x,
                              !.seen = @ \cup {FailureClass(e)},
                              !.last_resp = resp]
    IN  IF o.ok THEN [c EXCEPT !.pc = "returned", !.value = o.value,
                               !.seen = @ \cup {"ok"}, !.last_resp = resp]
        ELSE IF e.kind = "HTTPStatusError"
        THEN IF IsUnauthorized(e.status)
             THEN raise(Exc("AuthenticationFailed", e.status, "", e.at))
             ELSE IF ~IsServerError(e.status) THEN raise(e)
             ELSE retry
        ELSE retry

\* the loop is left: value_on_err() or raise last_exc
CanExhaust(c) == c.pc = "loop" /\ ~(c.attempt_idx < c.cfg.attempts)
DoExhaust(c) ==
    IF c.cfg.value_on_err.t # "nofallback"
    THEN [c EXCEPT !.pc = "returned", !.value = c.cfg.value_on_err,
                   !.fallback_calls = @ + 1]
    ELSE [c EXCEPT !.pc = "raised", !.exc = c.last_exc]


(***************************************************************************)
(* A call as a task of the event loop.  A coroutine runs without           *)
(* interruption from one await to the next, so a task is seen only in its  *)
(* suspension points: "get" (in asyncio.sleep), "wait" (in client.get),    *)
(* or over.                                                                *)
(***************************************************************************)
\* a call that has not been started
NotStarted(cfg) == [CommandStart(cfg) EXCEPT !.pc = "idle"]

\* from the while test to the next suspension point, or out of the loop
RunLoop(c) ==
    IF CommandDone(c) THEN c
    ELSE IF CanSleep(c) THEN DoSleep(c) ELSE DoExhaust(c)

\* the call is made and runs to its first await
Launch(cfg) == RunLoop(CommandStart(cfg))

\* the sleep is over: the request is issued
Wake(c) == DoGet(c)

\* the answer arrives and the task runs to its next await
Answer(c, resp) == RunLoop(DoRespond(c, resp))

(***************************************************************************)
(* The accessors: a fixed command with its validation policy.              *)
(***************************************************************************)
\* an accessor that ignores default_on_error
OnErr_Never(default_on_error, v) == NoFallback

OnErr(default_on_error, v) == IF default_on_error THEN v ELSE NoFallback

get_mac_address(default_on_error) ==
    Cfg(TRUE, "none", FALSE, DefaultAttempts, DefaultRetryDelay,
        OnErr(default_on_error, PyStr(<<>>)))

get_model_description(default_on_error) ==
    Cfg(TRUE, "none", FALSE, DefaultAttempts, DefaultRetryDelay,
        OnErr(default_on_error, PyStr(<<>>)))

get_device_status(default_on_error) ==
    Cfg(FALSE, "dict", FALSE, DefaultAttempts, DefaultRetryDelay,
        OnErr(default_on_error, PyDict(<<>>)))

get_ai_fw_version(default_on_error) ==
    Cfg(FALSE, "dict", FALSE, DefaultAttempts, DefaultRetryDelay,
        OnErr(default_on_error, PyDict(<<>>)))

get_device_info(default_on_error) ==
    Cfg(FALSE, "dict", FALSE, DefaultAttempts, DefaultRetryDelay,
        OnErr(default_on_error, PyDict(<<>>)))

(***************************************************************************)
(* Parsing of the API version: tuple(map(int, raw.split("."))).            *)
(***************************************************************************)
Digits == {"0", "1", "2", "3", "4", "5", "6", "7", "8", "9"}

DigitValue(ch) ==
    CASE ch = "0" -> 0 [] ch = "1" -> 1 [] ch = "2" -> 2 [] ch = "3" -> 3
      [] ch = "4" -> 4 [] ch = "5" -> 5 [] ch = "6" -> 6 [] ch = "7" -> 7
      [] ch = "8" -> 8 [] ch = "9" -> 9

\* str.split(sep): the parts between the separators, at least one part
RECURSIVE SplitFrom(_, _, _, _)
SplitFrom(s, sep, i, part) ==
    IF i > Len(s) THEN <<part>>
    ELSE IF s[i] = sep THEN <<part>> \o SplitFrom(s, sep, i + 1, <<>>)
         ELSE SplitFrom(s, sep, i + 1, Append(part, s[i]))

Split(s, sep) == SplitFrom(s, sep, 1, <<>>)

\* the value of a non-empty sequence of digits
RECURSIVE DigitsValue(_)
DigitsValue(ds) ==
    IF ds = <<>> THEN 0
    ELSE 10 * DigitsValue(SubSeq(ds, 1, Len(ds) - 1)) + DigitValue(ds[Len(ds)])

AllDigits(ds) == ds # <<>> /\ \A i \in 1..Len(ds) : ds[i] \in Digits

\* int(part): an optional sign and decimal digits; anything else, the empty
\* string included, raises ValueError (ok = FALSE)
PyIntOf(part) ==
    LET signed == part # <<>> /\ part[1] \in {"-", "+"}
        ds == IF signed THEN SubSeq(part, 2, Len(part)) ELSE part
    IN  IF AllDigits(ds)
        THEN [ok |-> TRUE,
              n |-> IF signed /\ part[1] = "-" THEN 0 - DigitsValue(ds)
                    ELSE DigitsValue(ds)]
        ELSE [ok |-> FALSE, n |-> 0]

\* tuple(map(int, raw.split("."))): the tuple, or ok = FALSE when int() raises
ParseApiVersion(raw) ==
    LET parts == Split(raw, ".")
        ints == [i \in 1..Len(parts) |-> PyIntOf(parts[i])]
    IN  IF \A i \in 1..Len(parts) : ints[i].ok
        THEN [ok |-> TRUE, value |-> [i \in 1..Len(parts) |-> ints[i].n]]
        ELSE [ok |-> FALSE, value |-> <<>>]

\* dict.get(key, default)
DictGet(d, key, default) == IF key \in DOMAIN d.v THEN d.v[key] ELSE default

\* truthiness of a value: None and empty containers are false
Truthy(d) == d.t # "NoneType" /\ PyLen(d) # 0

(***************************************************************************)
(* VZugApi.aggregate_meta.                                                 *)
(***************************************************************************)
AggMeta(mac_address, model_id, model_name, device_name, serial_number, api_version) ==
    [mac_address |-> mac_address, model_id |-> model_id, model_name |-> model_name,
     device_name |-> device_name, serial_number |-> serial_number,
     api_version |-> api_version]

NoMeta == AggMeta(PyNone, PyNone, PyNone, PyNone, PyNone, <<>>)

\* the ValueError of int() on a part that is no integer literal
IntValueError == Exc("ValueError", 0, "invalid literal for int()", 0)

\* the statements after the device-info call: both population branches
BuildMeta(mac_address, device_status, model_description, ai_firmware, device_info) ==
    IF Truthy(device_info)
    THEN LET raw_api_version == DictGet(device_info, "apiVersion", PyStr(<<>>))
             hh_api_version == ParseApiVersion(raw_api_version.v)
         IN  IF hh_api_version.ok
             THEN [ok |-> TRUE, exc |-> NoExc,
                   value |-> AggMeta(mac_address,
                                     DictGet(device_info, "model", PyStr(<<>>)),
                                     DictGet(device_info, "description", PyStr(<<>>)),
                                     DictGet(device_info, "name", PyStr(<<>>)),
                                     DictGet(device_info, "serialNumber", PyStr(<<>>)),
                                     hh_api_version.value)]
             ELSE [ok |-> FALSE, exc |-> IntValueError, value |-> NoMeta]
    ELSE LET raw_api_version == DictGet(ai_firmware, "apiVersion", PyStr(<<>>))
             ai_api_version == ParseApiVersion(raw_api_version.v)
         IN  IF ai_api_version.ok
             THEN [ok |-> TRUE, exc |-> NoExc,
                   value |-> AggMeta(mac_address,
                                     PyStr(<<>>),
                                     model_description,
                                     DictGet(device_status, "DeviceName", PyStr(<<>>)),
                                     DictGet(device_status, "Serial", PyStr(<<>>)),
                                     ai_api_version.value)]
             ELSE [ok |-> FALSE, exc |-> IntValueError, value |-> NoMeta]

\* the four fetches of the gather, and the call that follows it
MetaMembers == {"mac_address", "device_status", "model_description", "ai_firmware"}
MetaTasks == MetaMembers \cup {"device_info"}

MetaCfg(t, default_on_error) ==
    CASE t = "mac_address" -> get_mac_address(default_on_error)
      [] t = "device_status" -> get_device_status(default_on_error)
      [] t = "model_description" -> get_model_description(default_on_error)
      [] t = "ai_firmware" -> get_ai_fw_version(default_on_error)
      [] t = "device_info" -> get_device_info(TRUE)

\* a handler that takes every HTTPStatusError for "no device info"
DeviceInfoOf_AnyStatus(c) ==
    IF c.pc = "returned" THEN [ok |-> TRUE, value |-> c.value, exc |-> NoExc]
    ELSE IF c.exc.kind = "HTTPStatusError"
         THEN [ok |-> TRUE, value |-> PyNone, exc |-> NoExc]
         ELSE [ok |-> FALSE, value |-> PyNone, exc |-> c.exc]

\* except httpx.HTTPStatusError: a 404 means the device has no device info
DeviceInfoOf(c) ==
    IF c.pc = "returned" THEN [ok |-> TRUE, value |-> c.value, exc |-> NoExc]
    ELSE IF c.exc.kind = "HTTPStatusError" /\ c.exc.status = NOT_FOUND
         THEN [ok |-> TRUE, value |-> PyNone, exc |-> NoExc]
         ELSE [ok |-> FALSE, value |-> PyNone, exc |-> c.exc]

(***************************************************************************)
(* The device as aggregate_meta sees it.  The text of a JSON body matters  *)
(* to a non-raw call only by being empty or not.                           *)
(***************************************************************************)
JsonBody(v) == Body(<<"{", "}">>, v, v)
TextBody(text) == Body(text, Invalid, Invalid)
Http(status, body) == [kind |-> "http", status |-> status, body |-> body]

\* apiVersion strings: well-formed ("seen: 1.5.0 / 1.7.0 / 1.8.0"), short,
\* empty, not a number, with an empty part, negative
VersionStrings ==
    { <<"1", ".", "7", ".", "0">>, <<"1", ".", "5", ".", "0">>, <<"1", ".", "7">>,
      <<>>, <<"x">>, <<"1", ".", ".", "0">>, <<"-", "1", ".", "2">> }

DeviceStatusDicts ==
    { PyDict(<<>>),
      PyDict([DeviceName |-> PyStr(<<"d">>), Serial |-> PyStr(<<"s">>)]) }

AiFwDicts ==
    { PyDict([fn |-> PyStr(<<"f">>)]) }
    \cup { PyDict([fn |-> PyStr(<<"f">>), apiVersion |-> PyStr(s)]) : s \in VersionStrings }

DeviceInfoDicts ==
    { PyDict(<<>>),
      PyDict([model |-> PyStr(<<"m">>), description |-> PyStr(<<"D">>),
              name |-> PyStr(<<"n">>), serialNumber |-> PyStr(<<"S">>)]) }
    \cup { PyDict([model |-> PyStr(<<"m">>), description |-> PyStr(<<"D">>),
                   name |-> PyStr(<<"n">>), serialNumber |-> PyStr(<<"S">>),
                   apiVersion |-> PyStr(s)]) : s \in VersionStrings }

MetaAnswers(t) ==
    CASE t = "mac_address" ->
             { Http(200, TextBody(<<"0", "0", ":", "1", "1">>)),
               Http(500, EmptyBody), Http(401, EmptyBody) }
      [] t = "model_description" ->
             { Http(200, TextBody(<<"W", "A">>)), Http(500, EmptyBody) }
      [] t = "device_status" ->
             { Http(200, JsonBody(d)) : d \in DeviceStatusDicts }
             \cup { Http(500, EmptyBody) }
      [] t = "ai_firmware" ->
             { Http(200, JsonBody(d)) : d \in AiFwDicts }
             \cup { Http(500, EmptyBody) }
      [] t = "device_info" ->
             { Http(200, JsonBody(d)) : d \in DeviceInfoDicts }
             \cup { Http(st, EmptyBody) : st \in {400, 401, 404, 500} }

(***************************************************************************)
(* One _command call against a device that may answer anything.            *)
(***************************************************************************)
VARIABLES
    cmd,     \* the _command call under study
    tasks,   \* the calls an aggregator makes, by name
    meta,    \* aggregate_meta: its position, arguments and outcome
    agg,     \* aggregate_state, aggregate_update_status, aggregate_config:
             \* position, arguments, locals and outcome of the call
    call     \* an accessor or Program.build: arguments and outcome

vars == <<cmd, tasks, meta, agg, call>>

\* no aggregator call, no accessor call
NoAgg == [pc |-> "idle"]
NoCall == [fn |-> "none"]

\* aggregate_meta has been called and its gather has started the four fetches
MetaStart(default_on_error) ==
    [pc |-> "gather", default_on_error |-> default_on_error,
     gather_exc |-> NoExc, result |-> NoMeta, exc |-> NoExc, faults |-> 0]

TasksStart(default_on_error) ==
    [t \in MetaTasks |->
        IF t \in MetaMembers THEN Launch(MetaCfg(t, default_on_error))
        ELSE NotStarted(MetaCfg(t, default_on_error))]

ExpectedTypes == {"none", "dict", "list"}

\* the fallbacks the accessors pass: lambda: "", lambda: {}, lambda: []
Fallbacks == {NoFallback, PyStr(<<>>), PyDict(<<>>), PyList(<<>>)}

Cfgs ==
    { Cfg(raw, et, re, a, d, f) :
        raw \in BOOLEAN, et \in ExpectedTypes, re \in BOOLEAN,
        a \in (-1..MaxAttempts) \cup {DefaultAttempts},
        d \in (1..MaxRetryDelay) \cup {DefaultRetryDelay},
        f \in Fallbacks }

Init ==
    /\ cmd \in {CommandStart(cfg) : cfg \in Cfgs}
    /\ tasks = TasksStart(FALSE)
    /\ meta = MetaStart(FALSE)
    /\ agg = NoAgg
    /\ call = NoCall

Sleep ==
    /\ CanSleep(cmd)
    /\ cmd.requests < MaxRequests
    /\ cmd' = DoSleep(cmd)
    /\ UNCHANGED <<tasks, meta, agg, call>>

Get ==
    /\ CanGet(cmd)
    /\ cmd' = DoGet(cmd)
    /\ UNCHANGED <<tasks, meta, agg, call>>

Respond ==
    /\ CanRespond(cmd)
    /\ \E resp \in Responses : cmd' = DoRespond(cmd, resp)
    /\ UNCHANGED <<tasks, meta, agg, call>>

Exhaust ==
    /\ CanExhaust(cmd)
    /\ cmd' = DoExhaust(cmd)
    /\ UNCHANGED <<tasks, meta, agg, call>>

Next == Sleep \/ Get \/ Respond \/ Exhaust

Spec == Init /\ [][Next]_vars

(***************************************************************************)
(* One aggregate_meta call.                                                *)
(***************************************************************************)
InitMeta ==
    /\ cmd = NotStarted(get_device_info(TRUE))
    /\ \E default_on_error \in BOOLEAN :
          /\ tasks = TasksStart(default_on_error)
          /\ meta = MetaStart(default_on_error)
    /\ agg = NoAgg
    /\ call = NoCall

\* the backoff sleep of a fetch is over: it issues its request
MetaWake(t) ==
    /\ tasks[t].pc = "get"
    /\ tasks' = [tasks EXCEPT ![t] = Wake(@)]
    /\ UNCHANGED <<cmd, meta, agg, call>>

\* a fetch gets its answer; the first exception of a member of the gather
\* becomes the exception of the gather
MetaAnswer(t) ==
    /\ tasks[t].pc = "wait"
    /\ \E resp \in MetaAnswers(t) :
          LET c == Answer(tasks[t], resp)
              fault == IF IsSuccess(resp.status) THEN 0 ELSE 1
          IN  /\ meta.faults + fault <= MaxFaults
              /\ tasks' = [tasks EXCEPT ![t] = c]
              /\ meta' = [meta EXCEPT
                             !.faults = @ + fault,
                             !.gather_exc =
                                 IF t \in MetaMembers /\ c.pc = "raised" /\ @ = NoExc
                                 THEN c.exc ELSE @]
    /\ UNCHANGED <<cmd, agg, call>>

\* await asyncio.gather(...) raises the first exception of a member
MetaGatherRaised ==
    /\ meta.pc = "gather"
    /\ meta.gather_exc # NoExc
    /\ meta' = [meta EXCEPT !.pc = "raised", !.exc = meta.gather_exc]
    /\ UNCHANGED <<cmd, tasks, agg, call>>

\* await asyncio.gather(...) returns: get_device_info(default_on_error=True)
MetaGatherDone ==
    /\ meta.pc = "gather"
    /\ \A t \in MetaMembers : tasks[t].pc = "returned"
    /\ meta' = [meta EXCEPT !.pc = "device_info"]
    /\ tasks' = [tasks EXCEPT !["device_info"] = Launch(tasks["device_info"].cfg)]
    /\ UNCHANGED <<cmd, agg, call>>

\* the device-info call is over: the rest of aggregate_meta
MetaFinish ==
    /\ meta.pc = "device_info"
    /\ CommandDone(tasks["device_info"])
    /\ LET device_info == DeviceInfoOf(tasks["device_info"])
           built == BuildMeta(tasks["mac_address"].value,
                              tasks["device_status"].value,
                              tasks["model_description"].value,
                              tasks["ai_firmware"].value,
                              device_info.value)
       IN  meta' = IF ~device_info.ok
                   THEN [meta EXCEPT !.pc = "raised", !.exc = device_info.exc]
                   ELSE IF built.ok
                        THEN [meta EXCEPT !.pc = "returned", !.result = built.value]
                        ELSE [meta EXCEPT !.pc = "raised", !.exc = built.exc]
    /\ UNCHANGED <<cmd, tasks, agg, call>>

NextMeta ==
    \/ \E t \in MetaTasks : MetaWake(t)
    \/ \E t \in MetaTasks : MetaAnswer(t)
    \/ MetaGatherRaised
    \/ MetaGatherDone
    \/ MetaFinish

SpecMeta == InitMeta /\ [][NextMeta]_vars


(***************************************************************************)
(* Properties of one _command call.                                        *)
(***************************************************************************)
Retryable == {"5xx", "transport", "validation", "decode", "other"}

HasFallback(c) == c.cfg.value_on_err.t # "nofallback"

\* the n-th sleep of the call lasted (n-1) * retry_delay
LinearSleeps(c) ==
    \A n \in 1..Len(c.sleeps) : c.sleeps[n] = (n - 1) * c.cfg.retry_delay

\* the answer handled last is still the newest event of the call
JustHandled(c) == c.pc \in {"loop", "raised"} \/ (c.pc = "returned" /\ c.fallback_calls = 0)

\* every request so far failed with class k, as a persistent 5xx would:
\* at most `attempts` requests with linear backoff, and once the call is over
\* exactly `attempts` requests, then the last error or the fallback
RetriedToExhaustion(c, k) ==
    (c.seen = {k}) =>
        /\ c.requests <= c.cfg.attempts
        /\ LinearSleeps(c)
        /\ Len(c.sleeps) <= c.cfg.attempts
        /\ CommandDone(c) =>
              /\ c.requests = c.cfg.attempts
              /\ Len(c.sleeps) = c.cfg.attempts
              /\ IF HasFallback(c)
                 THEN c.pc = "returned" /\ c.value = c.cfg.value_on_err
                 ELSE c.pc = "raised" /\ c.exc.at = c.requests
                      /\ FailureClass(c.exc) = k

\* C1: a 401 on any attempt raises AuthenticationFailed at once: the 401 is
\* the answer to the last request issued, no sleep follows it and the
\* fallback is never invoked, whatever attempts, retry_delay, value_on_err.
C1_AuthFailedAtOnce ==
    ("401" \in cmd.seen) =>
        /\ cmd.pc = "raised"
        /\ cmd.exc.kind = "AuthenticationFailed"
        /\ cmd.exc.at = cmd.requests
        /\ Len(cmd.sleeps) = cmd.requests
        /\ cmd.fallback_calls = 0

C1_Witness ==
    /\ "401" \in cmd.seen
    /\ cmd.requests = 3
    /\ HasFallback(cmd)
    /\ cmd.cfg.attempts = DefaultAttempts

\* C2: persistent transport errors behave exactly as persistent 5xx:
\* `attempts` requests, the n-th after a sleep of (n-1)*retry_delay, then
\* the last transport error or the fallback.
C2_TransportAsServerError == RetriedToExhaustion(cmd, "transport")

\* C3: persistent 5xx: exactly `attempts` requests, the n-th after a sleep
\* of (n-1)*retry_delay, and without fallback the 5xx error is raised.
C3_ServerErrorRetried ==
    /\ RetriedToExhaustion(cmd, "5xx")
    /\ (cmd.seen = {"5xx"} /\ cmd.pc = "raised") =>
           /\ cmd.exc.kind = "HTTPStatusError"
           /\ cmd.exc.status = cmd.last_resp.status
           /\ cmd.exc.status >= 500

C3_Witness ==
    /\ cmd.seen = {"5xx"}
    /\ cmd.pc = "raised"
    /\ cmd.cfg.attempts = DefaultAttempts
    /\ cmd.cfg.retry_delay = DefaultRetryDelay
    /\ cmd.requests = 5
    /\ cmd.sleeps = <<0, 2, 4, 6, 8>>

\* C4: a 4xx other than 401 is raised unchanged and at once: it answers the
\* last request issued and the fallback is not invoked.
C4_ClientErrorPropagates ==
    /\ ("4xx" \in cmd.seen) =>
        /\ cmd.pc = "raised"
        /\ cmd.exc = Exc("HTTPStatusError", cmd.last_resp.status, "status error",
                         cmd.requests)
        /\ cmd.exc.status \in {400, 404}
        /\ Len(cmd.sleeps) = cmd.requests
        /\ cmd.fallback_calls = 0
    /\ (cmd.last_resp.status \in {400, 404}) => "4xx" \in cmd.seen

C4_Witness ==
    /\ "4xx" \in cmd.seen
    /\ cmd.requests = 1
    /\ cmd.exc.status = NOT_FOUND
    /\ HasFallback(cmd)

\* the call is over because the loop ran out of attempts
Exhausted(c) == CommandDone(c) /\ ~(c.attempt_idx < c.cfg.attempts)

\* C5: with value_on_err supplied, once `attempts` requests have all failed
\* with retryable errors the loop is left, value_on_err is invoked exactly
\* once and its result returned; the call does not raise.
C5_FallbackOnExhaustion ==
    (HasFallback(cmd) /\ cmd.seen # {} /\ cmd.seen \subseteq Retryable) =>
        /\ cmd.pc # "raised"
        /\ cmd.requests <= cmd.cfg.attempts
        /\ (cmd.requests = cmd.cfg.attempts /\ cmd.pc = "loop") => CanExhaust(cmd)
        /\ CommandDone(cmd) =>
              /\ cmd.value = cmd.cfg.value_on_err
              /\ cmd.fallback_calls = 1
              /\ cmd.requests = cmd.cfg.attempts

DecodesTo(c, v) ==
    /\ c.last_resp.kind = "http"
    /\ c.last_resp.status = 200
    /\ c.last_resp.body.json = v

EmptyBodyAnswer(c) ==
    /\ c.last_resp.kind = "http"
    /\ c.last_resp.status = 200
    /\ c.last_resp.body.text = <<>>

\* the answer handled last fails the declared validation (the cases of C7)
FailsValidation(c) ==
    /\ ~c.cfg.raw
    /\ \/ c.cfg.expected_type = "dict" /\ EmptyBodyAnswer(c)
       \/ c.cfg.expected_type = "dict" /\ DecodesTo(c, PyStr(<<"s">>))
       \/ c.cfg.expected_type = "list" /\ DecodesTo(c, PyDict(<<>>))
       \/ c.cfg.expected_type = "dict" /\ c.cfg.reject_empty /\ DecodesTo(c, PyDict(<<>>))
       \/ c.cfg.expected_type = "list" /\ c.cfg.reject_empty /\ DecodesTo(c, PyList(<<>>))
       \/ c.cfg.expected_type = "none" /\ c.cfg.reject_empty /\ DecodesTo(c, PyStr(<<>>))

\* reject_empty on a value without len() (None of an empty body, a number):
\* len(data) raises TypeError, caught by the catch-all clause
NoLenAnswer(c) ==
    /\ ~c.cfg.raw
    /\ c.cfg.reject_empty
    /\ c.cfg.expected_type = "none"
    /\ EmptyBodyAnswer(c) \/ DecodesTo(c, PyNone) \/ DecodesTo(c, PyInt(7))

\* C7: a value failing validation is a retryable failure: the failure is
\* recorded and the request repeated with backoff up to `attempts` times;
\* when all attempts fail validation the validation error is raised, or the
\* fallback returned.  (A value without len() under reject_empty fails with
\* TypeError instead of AssertionError and is retried the same way.)
C7_ValidationRetried ==
    /\ RetriedToExhaustion(cmd, "validation")
    /\ RetriedToExhaustion(cmd, "other")
    /\ (NoLenAnswer(cmd) /\ JustHandled(cmd)) =>
           /\ cmd.last_exc.kind = "TypeError"
           /\ cmd.last_exc.at = cmd.requests
           /\ cmd.pc = "raised" => (Exhausted(cmd) /\ cmd.exc = cmd.last_exc)
    /\ (FailsValidation(cmd) /\ JustHandled(cmd)) =>
           /\ cmd.last_exc.kind = "AssertionError"
           /\ cmd.last_exc.at = cmd.requests
           /\ "validation" \in cmd.seen
           /\ cmd.pc = "raised" => (Exhausted(cmd) /\ cmd.exc = cmd.last_exc)
    /\ (FailsValidation(cmd) /\ cmd.pc = "returned") =>
           (cmd.fallback_calls = 1 /\ cmd.value = cmd.cfg.value_on_err)

C7_Witness ==
    /\ cmd.seen = {"validation"}
    /\ cmd.pc = "raised"
    /\ cmd.cfg.expected_type = "dict"
    /\ EmptyBodyAnswer(cmd)
    /\ cmd.cfg.attempts = DefaultAttempts
    /\ cmd.requests = 5
    /\ cmd.sleeps = <<0, 2, 4, 6, 8>>


\* a 2xx answer whose body is empty or decodes to null
NullAnswer(c) == EmptyBodyAnswer(c) \/ DecodesTo(c, PyNone)

\* the answer handled last ended the call with the empty list, no error
\* recorded for it
YieldsEmptyList(c) ==
    /\ c.pc = "returned"
    /\ c.value = PyList(<<>>)
    /\ c.fallback_calls = 0
    /\ c.last_exc.at # c.requests

\* C8 as stated: for every non-raw call with expected_type = list, an empty
\* or null 2xx answer yields the empty list on that same attempt.
C8_NullListCoerced ==
    (~cmd.cfg.raw /\ cmd.cfg.expected_type = "list" /\ NullAnswer(cmd)
        /\ JustHandled(cmd)) => YieldsEmptyList(cmd)

\* C8 as amended: the same for calls that do not set reject_empty (with
\* reject_empty the coerced empty list fails the emptiness assertion and the
\* attempt is retried).
C8_NullListCoercedUnlessRejectEmpty ==
    /\ (~cmd.cfg.raw /\ cmd.cfg.expected_type = "list" /\ NullAnswer(cmd)
          /\ JustHandled(cmd) /\ ~cmd.cfg.reject_empty) => YieldsEmptyList(cmd)
    /\ (~cmd.cfg.raw /\ cmd.cfg.expected_type = "list" /\ NullAnswer(cmd)
          /\ JustHandled(cmd) /\ cmd.cfg.reject_empty) =>
             (cmd.last_exc.at = cmd.requests /\ cmd.last_exc.kind = "AssertionError")

C8_Witness ==
    /\ ~cmd.cfg.raw
    /\ cmd.cfg.expected_type = "list"
    /\ ~cmd.cfg.reject_empty
    /\ EmptyBodyAnswer(cmd)
    /\ YieldsEmptyList(cmd)
    /\ cmd.requests = 2

\* a 2xx answer whose non-empty body neither resp.json() nor the repair pass
\* can decode
UnrepairableAnswer(c) ==
    /\ c.last_resp.kind = "http"
    /\ c.last_resp.status = 200
    /\ c.last_resp.body.text # <<>>
    /\ c.last_resp.body.json = Invalid
    /\ c.last_resp.body.repair = Invalid

\* a 2xx answer whose non-empty body only the repair pass can decode
RepairedAnswer(c) ==
    /\ c.last_resp.kind = "http"
    /\ c.last_resp.status = 200
    /\ c.last_resp.body.text # <<>>
    /\ c.last_resp.body.json = Invalid
    /\ c.last_resp.body.repair # Invalid

\* C9: on a decode failure of a non-empty body the repaired value, if any,
\* goes through the same validation; if the repair fails the attempt fails
\* with the original decode error (not the repair error), which is retried
\* and is the error raised when it is the last failure at exhaustion.
C9_OriginalDecodeErrorRaised ==
    /\ (~cmd.cfg.raw /\ RepairedAnswer(cmd) /\ JustHandled(cmd)) =>
           LET o == Validate(cmd.cfg,
                             CoerceNone(cmd.cfg.expected_type,
                                        cmd.last_resp.body.repair),
                             cmd.requests)
           IN  IF o.ok THEN cmd.pc = "returned" /\ cmd.value = o.value
               ELSE cmd.last_exc = o.exc
    /\ (~cmd.cfg.raw /\ UnrepairableAnswer(cmd) /\ JustHandled(cmd)) =>
           /\ cmd.last_exc = OriginalDecodeError(cmd.requests)
           /\ cmd.pc = "raised" => (Exhausted(cmd) /\ cmd.exc = cmd.last_exc)


(***************************************************************************)
(* Properties of aggregate_meta.                                           *)
(***************************************************************************)
\* C10: whatever apiVersion the device reports (missing, empty and
\* unparseable included) and in both branches, aggregate_meta does not raise
\* because of the version and returns a tuple of non-negative integers.
C10_VersionNeverCrashes ==
    /\ (meta.pc = "raised") => (meta.exc # IntValueError)
    /\ (meta.pc = "returned") =>
           \A i \in 1..Len(meta.result.api_version) : meta.result.api_version[i] >= 0

\* aggregate_meta is over and it went as far as the device-info call
MetaOver == meta.pc \in {"returned", "raised"} /\ CommandDone(tasks["device_info"])

\* the device-info call raised the HTTPStatusError of a 404
DeviceInfoNotFound ==
    /\ tasks["device_info"].pc = "raised"
    /\ tasks["device_info"].exc.kind = "HTTPStatusError"
    /\ tasks["device_info"].exc.status = NOT_FOUND

\* the AggMeta of the legacy branch, field by field
LegacyMeta ==
    AggMeta(tasks["mac_address"].value,
            PyStr(<<>>),
            tasks["model_description"].value,
            DictGet(tasks["device_status"].value, "DeviceName", PyStr(<<>>)),
            DictGet(tasks["device_status"].value, "Serial", PyStr(<<>>)),
            ParseApiVersion(
                DictGet(tasks["ai_firmware"].value, "apiVersion", PyStr(<<>>)).v).value)

\* the AggMeta of the device-info branch, field by field
DeviceInfoMeta ==
    AggMeta(tasks["mac_address"].value,
            DictGet(tasks["device_info"].value, "model", PyStr(<<>>)),
            DictGet(tasks["device_info"].value, "description", PyStr(<<>>)),
            DictGet(tasks["device_info"].value, "name", PyStr(<<>>)),
            DictGet(tasks["device_info"].value, "serialNumber", PyStr(<<>>)),
            ParseApiVersion(
                DictGet(tasks["device_info"].value, "apiVersion", PyStr(<<>>)).v).value)

\* C11: when the device-info endpoint answers 404 aggregate_meta does not
\* fail and returns the legacy AggMeta (names from the device status and the
\* model description, model_id empty, api_version of the legacy firmware);
\* when the endpoint returns data the returned AggMeta takes every one of
\* these fields from the device info; the branches are never mixed.
C11_TwoPopulationPaths ==
    /\ (MetaOver /\ DeviceInfoNotFound) =>
           (meta.pc = "returned" /\ meta.result = LegacyMeta)
    /\ (MetaOver /\ tasks["device_info"].pc = "returned"
          /\ Truthy(tasks["device_info"].value) /\ meta.pc = "returned") =>
           meta.result = DeviceInfoMeta

\* the device-info call ended on an HTTP error status other than 404
DeviceInfoOtherError ==
    /\ tasks["device_info"].requests >= 1
    /\ tasks["device_info"].last_resp.kind = "http"
    /\ ~IsSuccess(tasks["device_info"].last_resp.status)
    /\ tasks["device_info"].last_resp.status # NOT_FOUND

\* C12: every HTTP error of the device-info endpoint other than 404 (another
\* 4xx, a 5xx that persists through all attempts) is raised by
\* aggregate_meta; only a 404 selects the legacy branch.
C12_DeviceInfoErrorsPropagate ==
    (MetaOver /\ DeviceInfoOtherError) =>
        /\ meta.pc = "raised"
        /\ meta.exc.status = tasks["device_info"].last_resp.status

\* C12 as amended: a 4xx other than 404 is raised by aggregate_meta (a 401 as
\* AuthenticationFailed); a 5xx that persists through all attempts is turned
\* into the empty mapping by the fallback of the device-info call and
\* selects the legacy branch, exactly as a 404 does.
C12_DeviceInfoClientErrorsPropagate ==
    /\ (MetaOver /\ DeviceInfoOtherError
          /\ tasks["device_info"].last_resp.status < 500) =>
           /\ meta.pc = "raised"
           /\ meta.exc = tasks["device_info"].exc
           /\ meta.exc.status = tasks["device_info"].last_resp.status
    /\ (MetaOver /\ DeviceInfoOtherError
          /\ tasks["device_info"].last_resp.status >= 500) =>
           /\ tasks["device_info"].requests = DefaultAttempts
           /\ tasks["device_info"].value = PyDict(<<>>)
           /\ meta.exc.kind # "HTTPStatusError"
           /\ meta.pc = "returned" => meta.result = LegacyMeta

C12_Witness ==
    /\ MetaOver
    /\ DeviceInfoOtherError
    /\ tasks["device_info"].last_resp.status >= 500
    /\ tasks["device_info"].requests = DefaultAttempts
    /\ meta.pc = "returned"
    /\ meta.result.model_id = PyStr(<<>>)
    /\ meta.result.api_version = <<1, 7, 0>>

(***************************************************************************)
(* VZugApi.get_eco_info: the call and the statements after it.             *)
(***************************************************************************)
get_last_push_notifications(default_on_error) ==
    Cfg(FALSE, "list", FALSE, DefaultAttempts, DefaultRetryDelay,
        OnErr(default_on_error, PyList(<<>>)))

\* the _command call of get_eco_info
get_eco_info(default_on_error) ==
    Cfg(FALSE, "dict", FALSE, DefaultAttempts, DefaultRetryDelay,
        OnErr(default_on_error, PyDict(<<>>)))

\* a variant that looks at the water total only
EcoInfoOf_WaterOnly(result) ==
    IF DictGet(DictGet(result, "water", PyDict(<<>>)), "total", PyInt(0)) = PyInt(0)
    THEN PyDict(<<>>)
    ELSE result

\* the statements after the call: both totals 0 (or absent) give EcoInfo()
EcoInfoOf(result) ==
    LET water_total == DictGet(DictGet(result, "water", PyDict(<<>>)), "total", PyInt(0))
        energy_total == DictGet(DictGet(result, "energy", PyDict(<<>>)), "total", PyInt(0))
    IN  IF water_total = PyInt(0) /\ energy_total = PyInt(0)
        THEN PyDict(<<>>)
        ELSE result

\* mappings of the shape of EcoInfoMetric and EcoInfo (all keys optional)
EcoInfoMetrics ==
    { PyDict(<<>>),
      PyDict([total |-> PyInt(0)]),
      PyDict([total |-> PyInt(5)]),
      PyDict([total |-> PyInt(0), average |-> PyInt(3)]),
      PyDict([average |-> PyInt(3)]) }

EcoInfos ==
    { PyDict(<<>>) }
    \cup { PyDict([water |-> w]) : w \in EcoInfoMetrics }
    \cup { PyDict([energy |-> e]) : e \in EcoInfoMetrics }
    \cup { PyDict([water |-> w, energy |-> e]) : w \in EcoInfoMetrics, e \in EcoInfoMetrics }

(***************************************************************************)
(* VZugApi.aggregate_state.                                                *)
(***************************************************************************)
AggState(zh_mode, device, device_fetched_at, notifications, eco_info) ==
    [zh_mode |-> zh_mode, device |-> device, device_fetched_at |-> device_fetched_at,
     notifications |-> notifications, eco_info |-> eco_info]

StateMembers == {"device", "notifications", "eco_info"}

StateCfg(t, default_on_error) ==
    CASE t = "device" -> get_device_status(default_on_error)
      [] t = "notifications" -> get_last_push_notifications(default_on_error)
      [] t = "eco_info" -> get_eco_info(default_on_error)

\* what a member of the gather returns once its _command call has returned
StateMemberValue(t, c) == IF t = "eco_info" THEN EcoInfoOf(c.value) ELSE c.value

Transport == [kind |-> "transport", status |-> 0, body |-> EmptyBody]

StateAnswers(t) ==
    CASE t = "device" ->
             { Http(200, JsonBody(PyDict([DeviceName |-> PyStr(<<"d">>),
                                          Serial |-> PyStr(<<"s">>)]))),
               Http(500, EmptyBody), Http(404, EmptyBody), Http(401, EmptyBody) }
      [] t = "notifications" ->
             { Http(200, JsonBody(PyList(<<PyDict([message |-> PyStr(<<"m">>)])>>))),
               Http(200, EmptyBody), Http(503, EmptyBody), Transport }
      [] t = "eco_info" ->
             { Http(200, JsonBody(PyDict([water |-> PyDict([total |-> PyInt(5)]),
                                          energy |-> PyDict([total |-> PyInt(0)])]))),
               Http(200, JsonBody(PyDict([water |-> PyDict([total |-> PyInt(0)]),
                                          energy |-> PyDict([total |-> PyInt(0)])]))),
               Http(200, JsonBody(PyList(<<>>))),
               Http(500, EmptyBody) }

\* asyncio.gather: the first exception raised by a member is the exception
\* of the gather; the other members are not cancelled
FirstRaise(gather_exc, c) ==
    IF c.pc = "raised" /\ gather_exc = NoExc THEN c.exc ELSE gather_exc

\* an answer that counts against the budget of faults
Fault(resp) == IF resp.kind = "http" /\ IsSuccess(resp.status) THEN 0 ELSE 1

StateStart(default_on_error) ==
    [fn |-> "aggregate_state", pc |-> "gather", default_on_error |-> default_on_error,
     gather_exc |-> NoExc, result |-> PyNone, exc |-> NoExc, faults |-> 0,
     now |-> 0, started_at |-> 0, done_at |-> [t \in StateMembers |-> -1],
     device_fetched_at |-> -1, returned_at |-> -1]

InitState ==
    /\ cmd = NotStarted(get_device_info(TRUE))
    /\ meta = MetaStart(FALSE)
    /\ call = NoCall
    /\ \E default_on_error \in BOOLEAN :
          /\ tasks = [t \in StateMembers |-> Launch(StateCfg(t, default_on_error))]
          /\ agg = StateStart(default_on_error)

\* the backoff sleep of call t is over: it issues its request
TaskWake(t) ==
    /\ tasks[t].pc = "get"
    /\ tasks' = [tasks EXCEPT ![t] = Wake(@)]
    /\ UNCHANGED <<cmd, meta, agg, call>>

\* member t of a gather gets one of `answers` and runs to its next await or
\* to its end
TaskAnswer(t, answers) ==
    /\ tasks[t].pc = "wait"
    /\ \E resp \in answers :
          LET c == Answer(tasks[t], resp)
          IN  /\ agg.faults + Fault(resp) <= MaxFaults
              /\ tasks' = [tasks EXCEPT ![t] = c]
              /\ agg' = [agg EXCEPT !.faults = @ + Fault(resp),
                                    !.gather_exc = FirstRaise(@, c)]
    /\ UNCHANGED <<cmd, meta, call>>

\* await asyncio.gather(...) raises: the aggregator raises
GatherRaised ==
    /\ agg.pc = "gather"
    /\ agg.gather_exc # NoExc
    /\ agg' = [agg EXCEPT !.pc = "raised", !.exc = agg.gather_exc]
    /\ UNCHANGED <<cmd, tasks, meta, call>>

\* a variant of _device() that reads the clock before the fetch
DeviceFetchedAt_BeforeFetch(started_at, now) == started_at

\* _device(): data = await self.get_device_status(...);
\* return data, datetime.now(UTC): the clock is read once the fetch is over
DeviceFetchedAt(started_at, now) == now

\* a member of the gather of aggregate_state gets an answer and runs to its
\* next await or to its end; the clock `now` counts the instants at which a
\* member has completed
StateAnswer(t) ==
    /\ tasks[t].pc = "wait"
    /\ \E resp \in StateAnswers(t) :
          LET c == Answer(tasks[t], resp)
              now == IF CommandDone(c) THEN agg.now + 1 ELSE agg.now
          IN  /\ agg.faults + Fault(resp) <= MaxFaults
              /\ tasks' = [tasks EXCEPT ![t] = c]
              /\ agg' = [agg EXCEPT
                            !.faults = @ + Fault(resp),
                            !.gather_exc = FirstRaise(@, c),
                            !.now = now,
                            !.done_at[t] = IF CommandDone(c) THEN now ELSE @,
                            !.device_fetched_at =
                                IF t = "device" /\ c.pc = "returned"
                                THEN DeviceFetchedAt(agg.started_at, now) ELSE @]
    /\ UNCHANGED <<cmd, meta, call>>

\* the device command each member of aggregate_state sends
StateCommand(t) ==
    CASE t = "device" -> "getDeviceStatus"
      [] t = "notifications" -> "getLastPUSHNotifications"
      [] t = "eco_info" -> "getEcoInfo"

\* a variant that reports the mode 0 a get_zh_mode probe would fall back to
StateGatherDone_ProbedZhMode ==
    /\ agg.pc = "gather"
    /\ agg.gather_exc = NoExc
    /\ \A t \in StateMembers : tasks[t].pc = "returned"
    /\ agg' = [agg EXCEPT
                  !.pc = "returned",
                  !.returned_at = agg.now,
                  !.result = AggState(0,
                                      StateMemberValue("device", tasks["device"]),
                                      agg.device_fetched_at,
                                      StateMemberValue("notifications", tasks["notifications"]),
                                      StateMemberValue("eco_info", tasks["eco_info"]))]
    /\ UNCHANGED <<cmd, tasks, meta, call>>

\* zh_mode = -1; await asyncio.gather(...) returns: return AggState(...)
StateGatherDone ==
    /\ agg.pc = "gather"
    /\ agg.gather_exc = NoExc
    /\ \A t \in StateMembers : tasks[t].pc = "returned"
    /\ agg' = [agg EXCEPT
                  !.pc = "returned",
                  !.returned_at = agg.now,
                  !.result = AggState(-1,
                                      StateMemberValue("device", tasks["device"]),
                                      agg.device_fetched_at,
                                      StateMemberValue("notifications", tasks["notifications"]),
                                      StateMemberValue("eco_info", tasks["eco_info"]))]
    /\ UNCHANGED <<cmd, tasks, meta, call>>

\* async with detect_auth_failed(): except api.AuthenticationFailed:
\* raise ConfigEntryAuthFailed; any other exception leaves the block as it is
detect_auth_failed(exc) ==
    IF exc.kind = "AuthenticationFailed"
    THEN Exc("ConfigEntryAuthFailed", 0, "", 0)
    ELSE exc

\* Shared._fetch_state: the aggregate_state call made under
\* detect_auth_failed is over and the poll hands its outcome to the host
FetchState ==
    /\ agg.pc \in {"returned", "raised"}
    /\ call = NoCall
    /\ call' = [fn |-> "_fetch_state", data |-> agg.result,
                exc |-> detect_auth_failed(agg.exc)]
    /\ UNCHANGED <<cmd, tasks, meta, agg>>

NextState ==
    \/ \E t \in StateMembers : TaskWake(t)
    \/ \E t \in StateMembers : StateAnswer(t)
    \/ GatherRaised
    \/ StateGatherDone
    \/ FetchState

SpecState == InitState /\ [][NextState]_vars

(***************************************************************************)
(* Properties of aggregate_state.                                          *)
(***************************************************************************)
\* the call of a member ended by returning its fallback
FellBack(c) == c.pc = "returned" /\ c.fallback_calls = 1

\* the data of the answer a call returned on (an empty body stands for null)
AnswerData(c) ==
    CoerceNone(c.cfg.expected_type,
               IF c.last_resp.body.text = <<>> THEN PyNone ELSE c.last_resp.body.json)

\* every member is what its endpoint gave: the empty value of a failed
\* endpoint, the real data of an endpoint that answered
MembersAsFetched ==
    /\ agg.result.device =
           IF FellBack(tasks["device"]) THEN PyDict(<<>>)
           ELSE AnswerData(tasks["device"])
    /\ agg.result.notifications =
           IF FellBack(tasks["notifications"]) THEN PyList(<<>>)
           ELSE AnswerData(tasks["notifications"])
    /\ agg.result.eco_info =
           IF FellBack(tasks["eco_info"]) THEN PyDict(<<>>)
           ELSE EcoInfoOf(AnswerData(tasks["eco_info"]))

ShortAttempts == 2
\* the polling intervals of the update coordinator, in seconds
UPDATE_COORD_IDLE_INTERVAL == 21600
UPDATE_COORD_ACTIVE_INTERVAL == 5

\* _command(..., raw=True, attempts=2)
set_command == Cfg(TRUE, "none", FALSE, ShortAttempts, DefaultRetryDelay, NoFallback)
do_command_action == Cfg(TRUE, "none", FALSE, ShortAttempts, DefaultRetryDelay, NoFallback)
set_program == Cfg(TRUE, "none", FALSE, ShortAttempts, DefaultRetryDelay, NoFallback)
check_for_updates == Cfg(TRUE, "none", FALSE, ShortAttempts, DefaultRetryDelay, NoFallback)

\* _command("ai", command="doAIUpdate"), _command("ai", command="doHHGUpdate"):
\* every other parameter has its default
do_ai_update == Cfg(FALSE, "none", FALSE, DefaultAttempts, DefaultRetryDelay, NoFallback)
do_hhg_update == Cfg(FALSE, "none", FALSE, DefaultAttempts, DefaultRetryDelay, NoFallback)

MutatingAccessors ==
    {"set_command", "do_command_action", "set_program", "check_for_updates",
     "do_ai_update", "do_hhg_update"}

MutatingCfg(fn) ==
    CASE fn = "set_command" -> set_command
      [] fn = "do_command_action" -> do_command_action
      [] fn = "set_program" -> set_program
      [] fn = "check_for_updates" -> check_for_updates
      [] fn = "do_ai_update" -> do_ai_update
      [] fn = "do_hhg_update" -> do_hhg_update

\* one call of a mutating accessor; its steps are those of _command
InitMutate ==
    /\ \E fn \in MutatingAccessors :
          /\ call = [fn |-> fn]
          /\ cmd = CommandStart(MutatingCfg(fn))
    /\ tasks = TasksStart(FALSE)
    /\ meta = MetaStart(FALSE)
    /\ agg = NoAgg

SpecMutate == InitMutate /\ [][Next]_vars

\* C14: every mutating accessor calls _command in raw mode, with 2 attempts
\* and without fallback: a mutation that keeps failing issues at most 2
\* requests and then raises.
C14_MutationsFailFast ==
    /\ (cmd.seen = {"5xx"}) =>
           /\ cmd.requests <= 2
           /\ CommandDone(cmd) => (cmd.pc = "raised" /\ cmd.requests = 2)
    /\ CommandDone(cmd) => (cmd.cfg.raw /\ cmd.cfg.attempts = 2 /\ ~HasFallback(cmd))

(***************************************************************************)
(* Program.build.  The dicts it works on are objects: `objs` holds the     *)
(* content of each by name, a variable holds the name of its object.       *)
(***************************************************************************)
\* d[key] = v and del d[key] on the content of a dict
DictSet(f, key, v) == [k \in DOMAIN f \cup {key} |-> IF k = key THEN v ELSE f[k]]
DictDel(f, key) == [k \in DOMAIN f \ {key} |-> f[k]]

\* ProgramInfo.__required_keys__ | ProgramInfo.__optional_keys__
ProgramInfoKeys == {"id", "name", "status", "stepIds"}

\* a binding of `options` to the object of `raw` itself
DictCopy_Alias(objs, name) == [objs |-> objs, ref |-> name]

\* raw.copy(): a new dict with the entries of `raw`
DictCopy(objs, name) == [objs |-> [objs EXCEPT !.copy = objs[name]], ref |-> "copy"]

\* the for loop: every ProgramInfo key found in `options` moves to `info`
RECURSIVE BuildLoop(_, _, _)
BuildLoop(keys, objs, options) ==
    IF keys = {} THEN objs
    ELSE LET key == CHOOSE k \in keys : TRUE
         IN  IF key \in DOMAIN objs[options]
             THEN LET added == [objs EXCEPT !.info = DictSet(@, key, objs[options][key])]
                  IN  BuildLoop(keys \ {key},
                                [added EXCEPT ![options] = DictDel(@, key)],
                                options)
             ELSE BuildLoop(keys \ {key}, objs, options)

\* Program.build(raw): the Program, and `raw` as the call leaves it
ProgramBuild(raw) ==
    LET copied == DictCopy([raw |-> raw.v, info |-> <<>>, copy |-> <<>>], "raw")
        objs == BuildLoop(ProgramInfoKeys, copied.objs, copied.ref)
    IN  [raw |-> PyDict(objs.raw),
         info |-> PyDict(objs.info),
         options |-> PyDict(objs[copied.ref])]

\* raw program mappings: any of the fixed fields and of two option fields,
\* in two variants of the values
ProgramValue(key, variant) ==
    CASE key = "id" -> PyInt(IF variant = "selected" THEN 50 ELSE 51)
      [] key = "name" -> PyStr(<<"E", "c", "o">>)
      [] key = "status" -> PyStr(<<variant>>)
      [] key = "stepIds" -> PyList(<<PyInt(1), PyInt(2)>>)
      [] key = "duration" -> PyDict([min |-> PyInt(0), max |-> PyInt(9), step |-> PyInt(1)])
      [] key = "energySaving" -> PyDict([set |-> PyStr(<<variant>>)])

RawPrograms ==
    { PyDict([k \in ks |-> ProgramValue(k, variant)]) :
        ks \in SUBSET (ProgramInfoKeys \cup {"duration", "energySaving"}),
        variant \in {"selected", "idle"} }

InitBuild ==
    /\ call \in { [fn |-> "Program.build", pc |-> "called", input |-> raw, raw |-> raw,
                   info |-> PyNone, options |-> PyNone] : raw \in RawPrograms }
    /\ cmd = NotStarted(get_device_info(TRUE))
    /\ tasks = TasksStart(FALSE)
    /\ meta = MetaStart(FALSE)
    /\ agg = NoAgg

Build ==
    /\ call.pc = "called"
    /\ LET program == ProgramBuild(call.raw)
       IN  call' = [call EXCEPT !.pc = "returned", !.raw = program.raw,
                                !.info = program.info, !.options = program.options]
    /\ UNCHANGED <<cmd, tasks, meta, agg>>

SpecBuild == InitBuild /\ [][Build]_vars

\* C15: Program.build partitions the raw mapping: info holds exactly the
\* entries with a key of {id, name, status, stepIds} that the input has,
\* options holds exactly the other entries, the key sets are disjoint and
\* together give the input with its values, and the input mapping is left
\* as it was.
C15_BuildPartitions ==
    (call.pc = "returned") =>
        LET input == call.input.v
            info == call.info.v
            options == call.options.v
        IN  /\ DOMAIN info = DOMAIN input \cap {"id", "name", "status", "stepIds"}
            /\ DOMAIN options = DOMAIN input \ {"id", "name", "status", "stepIds"}
            /\ DOMAIN info \cap DOMAIN options = {}
            /\ DOMAIN info \cup DOMAIN options = DOMAIN input
            /\ \A k \in DOMAIN info : info[k] = input[k]
            /\ \A k \in DOMAIN options : options[k] = input[k]
            /\ call.raw = call.input

C15_Witness ==
    /\ call.pc = "returned"
    /\ DOMAIN call.input.v = {"id", "name", "status", "duration", "energySaving"}
    /\ DOMAIN call.info.v = {"id", "name", "status"}
    /\ DOMAIN call.options.v = {"duration", "energySaving"}

(***************************************************************************)
(* One get_eco_info call: the _command call, then the totals rule.         *)
(***************************************************************************)
EcoAnswers ==
    { Http(200, JsonBody(d)) : d \in EcoInfos }
    \cup { Http(200, EmptyBody), Http(500, EmptyBody), Http(404, EmptyBody) }

InitEco ==
    /\ \E default_on_error \in BOOLEAN :
          /\ cmd = CommandStart(get_eco_info(default_on_error))
          /\ call = [fn |-> "get_eco_info", pc |-> "command",
                     default_on_error |-> default_on_error,
                     value |-> PyNone, exc |-> NoExc]
    /\ tasks = TasksStart(FALSE)
    /\ meta = MetaStart(FALSE)
    /\ agg = NoAgg

\* the device answers getEcoInfo
EcoRespond ==
    /\ CanRespond(cmd)
    /\ \E resp \in EcoAnswers : cmd' = DoRespond(cmd, resp)
    /\ UNCHANGED <<tasks, meta, agg, call>>

\* await self._command(...) is over: it raised, or the totals are looked at
EcoFinish ==
    /\ call.pc = "command"
    /\ CommandDone(cmd)
    /\ call' = IF cmd.pc = "raised"
               THEN [call EXCEPT !.pc = "raised", !.exc = cmd.exc]
               ELSE [call EXCEPT !.pc = "returned", !.value = EcoInfoOf(cmd.value)]
    /\ UNCHANGED <<cmd, tasks, meta, agg>>

NextEco == Sleep \/ Get \/ EcoRespond \/ Exhaust \/ EcoFinish

SpecEco == InitEco /\ [][NextEco]_vars

\* the total of a metric of an EcoInfo mapping, 0 when absent
EcoTotal(d, metric) ==
    IF metric \in DOMAIN d.v /\ "total" \in DOMAIN d.v[metric].v
    THEN d.v[metric].v["total"].v[1]
    ELSE 0

\* C16: get_eco_info returns the empty mapping when both water.total and
\* energy.total are 0 or absent (the fallback value included), returns the
\* mapping of the device unchanged when one of the totals is not zero, and
\* never returns a non-empty mapping whose two totals are both zero.
C16_EcoInfoEmptyOrGenuine ==
    (call.pc = "returned") =>
        /\ (EcoTotal(cmd.value, "water") = 0 /\ EcoTotal(cmd.value, "energy") = 0) =>
               call.value = PyDict(<<>>)
        /\ (EcoTotal(cmd.value, "water") # 0 \/ EcoTotal(cmd.value, "energy") # 0) =>
               (call.value = cmd.value /\ cmd.value = cmd.last_resp.body.json)
        /\ FellBack(cmd) => call.value = PyDict(<<>>)
        /\ (call.value # PyDict(<<>>)) =>
               (EcoTotal(call.value, "water") # 0 \/ EcoTotal(call.value, "energy") # 0)

C16_Witness ==
    /\ call.pc = "returned"
    /\ cmd.value # PyDict(<<>>)
    /\ EcoTotal(cmd.value, "water") = 0
    /\ EcoTotal(cmd.value, "energy") = 0
    /\ call.value = PyDict(<<>>)
    /\ cmd.requests = 2

(***************************************************************************)
(* VZugApi.aggregate_update_status, called as Shared._fetch_update does.   *)
(***************************************************************************)
get_update_status(default_on_error) ==
    Cfg(FALSE, "dict", FALSE, DefaultAttempts, DefaultRetryDelay,
        OnErr(default_on_error, PyDict(<<>>)))

get_hh_fw_version(default_on_error) ==
    Cfg(FALSE, "dict", FALSE, DefaultAttempts, DefaultRetryDelay,
        OnErr(default_on_error, PyDict(<<>>)))

\* a >= b on tuples of integers: the first difference decides, a proper
\* prefix is smaller
RECURSIVE TupleGE(_, _)
TupleGE(a, b) ==
    IF b = <<>> THEN TRUE
    ELSE IF a = <<>> THEN FALSE
    ELSE IF a[1] # b[1] THEN a[1] > b[1]
    ELSE TupleGE(Tail(a), Tail(b))

\* AggMeta.supports_update_status: self.api_version >= (1, 7, 0)
supports_update_status_TwoParts(api_version) == TupleGE(api_version, <<1, 7>>)

supports_update_status(api_version) == TupleGE(api_version, <<1, 7, 0>>)

\* the api_version of the AggMeta in Shared.meta
ApiVersions ==
    { <<1, 7, 0>>, <<1, 5, 0>>, <<1, 7>>, <<1, 8, 0>>, <<>>, <<2>>, <<1, 6, 9>> }

AggUpdateStatus(update, ai_fw_version, hh_fw_version) ==
    [update |-> update, ai_fw_version |-> ai_fw_version,
     hh_fw_version |-> hh_fw_version]

UpdateMembers == {"update", "ai_fw_version", "hh_fw_version"}

\* a variant of _update() that asks the device whatever the flag says
UpdateMember_Always(supports, default_on_error) ==
    Launch(get_update_status(default_on_error))

\* _update(): the call is made only if supports_update_status
UpdateMember(supports, default_on_error) ==
    IF supports THEN Launch(get_update_status(default_on_error))
    ELSE NotStarted(get_update_status(default_on_error))

UpdateTasks(supports, default_on_error) ==
    [t \in UpdateMembers |->
        CASE t = "update" -> UpdateMember(supports, default_on_error)
          [] t = "ai_fw_version" -> Launch(get_ai_fw_version(default_on_error))
          [] t = "hh_fw_version" -> Launch(get_hh_fw_version(default_on_error))]

\* a member of the gather has returned; _update() that made no call has
\* returned UpdateStatus()
UpdateMemberReturned(t) == tasks[t].pc = "returned" \/ tasks[t].pc = "idle"
UpdateMemberValue(t) == IF tasks[t].pc = "idle" THEN PyDict(<<>>) ELSE tasks[t].value

UpdateAnswers(t) ==
    CASE t = "update" ->
             { Http(200, JsonBody(PyDict([status |-> PyStr(<<"i", "d", "l", "e">>)]))),
               Http(200, JsonBody(PyDict([status |-> PyStr(<<"d", "o", "w", "n">>)]))),
               Http(200, JsonBody(PyDict([isAIUpdateAvailable |-> PyInt(1)]))),
               Http(500, EmptyBody), Http(404, EmptyBody) }
      [] t = "ai_fw_version" ->
             { Http(200, JsonBody(PyDict([SW |-> PyStr(<<"1">>)]))),
               Http(500, EmptyBody) }
      [] t = "hh_fw_version" ->
             { Http(200, JsonBody(PyDict([fn |-> PyStr(<<"f">>)]))),
               Http(500, EmptyBody), Http(401, EmptyBody) }

InitUpdate ==
    /\ cmd = NotStarted(get_device_info(TRUE))
    /\ meta = MetaStart(FALSE)
    /\ \E update_interval \in {UPDATE_COORD_IDLE_INTERVAL, UPDATE_COORD_ACTIVE_INTERVAL} :
          call = [fn |-> "update_coord", update_interval |-> update_interval]
    /\ \E api_version \in ApiVersions, default_on_error \in BOOLEAN :
          LET supports == supports_update_status(api_version)
          IN  /\ tasks = UpdateTasks(supports, default_on_error)
              /\ agg = [fn |-> "aggregate_update_status", pc |-> "gather",
                        api_version |-> api_version,
                        supports_update_status |-> supports,
                        default_on_error |-> default_on_error,
                        gather_exc |-> NoExc, result |-> PyNone,
                        exc |-> NoExc, faults |-> 0]

\* await asyncio.gather(...) returns: return AggUpdateStatus(...)
UpdateGatherDone ==
    /\ agg.pc = "gather"
    /\ agg.gather_exc = NoExc
    /\ \A t \in UpdateMembers : UpdateMemberReturned(t)
    /\ agg' = [agg EXCEPT
                  !.pc = "returned",
                  !.result = AggUpdateStatus(UpdateMemberValue("update"),
                                             UpdateMemberValue("ai_fw_version"),
                                             UpdateMemberValue("hh_fw_version"))]
    /\ UNCHANGED <<cmd, tasks, meta, call>>

\* a variant that takes only the status "idle" for the resting state
NextUpdateInterval_IdleOnly(update) ==
    IF DictGet(update, "status", PyNone) = PyStr(<<"i", "d", "l", "e">>)
    THEN UPDATE_COORD_IDLE_INTERVAL
    ELSE UPDATE_COORD_ACTIVE_INTERVAL

\* if data.update.get("status") in ("idle", None): idle interval, else active
NextUpdateInterval(update) ==
    IF DictGet(update, "status", PyNone) \in {PyStr(<<"i", "d", "l", "e">>), PyNone}
    THEN UPDATE_COORD_IDLE_INTERVAL
    ELSE UPDATE_COORD_ACTIVE_INTERVAL

\* Shared._fetch_update: the aggregate_update_status call made under
\* detect_auth_failed is over; if it returned, the polling interval of the
\* update coordinator is set from the status
FetchUpdate ==
    /\ agg.pc \in {"returned", "raised"}
    /\ call.fn = "update_coord"
    /\ call' = [fn |-> "_fetch_update", data |-> agg.result,
                exc |-> detect_auth_failed(agg.exc),
                interval_before |-> call.update_interval,
                update_interval |-> IF agg.pc = "returned"
                                    THEN NextUpdateInterval(agg.result.update)
                                    ELSE call.update_interval]
    /\ UNCHANGED <<cmd, tasks, meta, agg>>

NextUpdate ==
    \/ \E t \in UpdateMembers : TaskWake(t)
    \/ \E t \in UpdateMembers : TaskAnswer(t, UpdateAnswers(t))
    \/ GatherRaised
    \/ UpdateGatherDone
    \/ FetchUpdate

SpecUpdate == InitUpdate /\ [][NextUpdate]_vars

\* C17: when supports_update_status is false no getUpdateStatus request is
\* ever issued, the update member is the empty mapping and both firmware
\* versions are still fetched; when it is true the update-status call is a
\* member of the same gather as the two firmware calls: the three are
\* started together and none waits for another before its first request.
C17_UpdateStatusOnlyIfSupported ==
    /\ ~agg.supports_update_status =>
          /\ tasks["update"].requests = 0
          /\ tasks["ai_fw_version"].pc # "idle"
          /\ tasks["hh_fw_version"].pc # "idle"
          /\ (agg.pc = "returned") =>
                /\ agg.result.update = PyDict(<<>>)
                /\ tasks["ai_fw_version"].requests >= 1
                /\ tasks["hh_fw_version"].requests >= 1
                /\ agg.result.ai_fw_version = tasks["ai_fw_version"].value
                /\ agg.result.hh_fw_version = tasks["hh_fw_version"].value
    /\ agg.supports_update_status =>
          /\ \A t \in UpdateMembers :
                /\ tasks[t].pc # "idle"
                /\ (tasks[t].requests = 0) => (tasks[t].pc = "get")
          /\ (agg.pc = "returned") =>
                /\ tasks["update"].requests >= 1
                /\ agg.result.update = tasks["update"].value

\* not supported: the call returned the firmware versions without asking
C17_Witness ==
    /\ ~agg.supports_update_status
    /\ agg.api_version = <<1, 7>>
    /\ agg.pc = "returned"
    /\ tasks["update"].requests = 0
    /\ agg.result.ai_fw_version # PyDict(<<>>)
    /\ agg.result.hh_fw_version # PyDict(<<>>)

(***************************************************************************)
(* VZugApi.aggregate_config.  The calls are named by their command and     *)
(* arguments: <<"getCategories">>, <<"getCategory", c>>,                   *)
(* <<"getCommands", c>> and, for handle_command_key(k) of the iteration of *)
(* category c, <<"getCommand", c, k>>.                                     *)
(***************************************************************************)
list_categories_RejectEmpty ==
    Cfg(FALSE, "list", TRUE, DefaultAttempts, DefaultRetryDelay, NoFallback)

list_categories ==
    Cfg(FALSE, "list", FALSE, DefaultAttempts, DefaultRetryDelay, NoFallback)
get_category ==
    Cfg(FALSE, "dict", FALSE, DefaultAttempts, DefaultRetryDelay, NoFallback)
list_commands ==
    Cfg(FALSE, "list", FALSE, DefaultAttempts, DefaultRetryDelay, NoFallback)
get_command ==
    Cfg(FALSE, "dict", FALSE, DefaultAttempts, DefaultRetryDelay, NoFallback)

AggCategory(key, description, commands) ==
    [key |-> key, description |-> description, commands |-> commands]

\* a handle_command_key that fetches the descriptor and drops it
StoreCommand_Dropped(category, command_key, command_raw) == category

\* category.commands[command_key] = command_raw
StoreCommand(category, command_key, command_raw) ==
    [category EXCEPT !.commands = DictSet(@, command_key, command_raw)]

Range(s) == {s[i] : i \in 1..Len(s)}

\* the configuration trees of the devices: the categories in the order
\* getCategories lists them, whether a category has a description, and the
\* commands getCommands lists for it
CategoryKeys == {"c1", "c2"}
CommandKeys == {"k1", "k2"}

Devices ==
    { [categories |-> <<>>,
       described |-> [c \in CategoryKeys |-> FALSE],
       commands |-> [c \in CategoryKeys |-> <<>>]],
      [categories |-> <<"c1">>,
       described |-> [c \in CategoryKeys |-> TRUE],
       commands |-> [c \in CategoryKeys |-> <<"k1", "k2">>]],
      [categories |-> <<"c1", "c2">>,
       described |-> [c \in CategoryKeys |-> c = "c1"],
       commands |-> [c \in CategoryKeys |-> IF c = "c1" THEN <<"k1">> ELSE <<"k2", "k1">>]],
      [categories |-> <<"c2", "c1">>,
       described |-> [c \in CategoryKeys |-> c = "c2"],
       commands |-> [c \in CategoryKeys |-> IF c = "c1" THEN <<"k2">> ELSE <<>>]] }

\* what the device answers to getCategory and getCommand
CategoryOf(device, c) ==
    IF device.described[c] THEN PyDict([description |-> PyStr(<<c>>)]) ELSE PyDict(<<>>)
CommandOf(k) == PyDict([type |-> PyStr(<<"action">>), command |-> PyStr(<<k>>)])

ConfigCalls ==
    {<<"getCategories">>}
    \cup {<<"getCategory", c>> : c \in CategoryKeys}
    \cup {<<"getCommands", c>> : c \in CategoryKeys}
    \cup {<<"getCommand", c, k>> : c \in CategoryKeys, k \in CommandKeys}

CategoryCalls == {t \in ConfigCalls : t[1] \in {"getCategory", "getCommands"}}
CommandCalls == {t \in ConfigCalls : t[1] = "getCommand"}

ConfigCfg(t) ==
    CASE t[1] = "getCategories" -> list_categories
      [] t[1] = "getCategory" -> get_category
      [] t[1] = "getCommands" -> list_commands
      [] t[1] = "getCommand" -> get_command

ConfigAnswers(t, device) ==
    CASE t[1] = "getCategories" ->
             { Http(200, JsonBody(PyList(device.categories))),
               Http(500, EmptyBody), Http(401, EmptyBody) }
      [] t[1] = "getCategory" ->
             { Http(200, JsonBody(CategoryOf(device, t[2]))),
               Http(500, EmptyBody), Http(404, EmptyBody) }
      [] t[1] = "getCommands" ->
             { Http(200, JsonBody(PyList(device.commands[t[2]]))),
               Http(500, EmptyBody) }
      [] t[1] = "getCommand" ->
             { Http(200, JsonBody(CommandOf(t[3]))),
               Http(500, EmptyBody), Http(404, EmptyBody) }

\* a variant that starts the calls of the first category with getCategories
ConfigTasks_Eager(device) ==
    [t \in ConfigCalls |->
        IF t[1] = "getCategories" \/ (t \in CategoryCalls /\ t[2] = "c1")
        THEN Launch(ConfigCfg(t))
        ELSE NotStarted(ConfigCfg(t))]

\* category_keys = await self.list_categories(): the only call in progress
ConfigTasks(device) ==
    [t \in ConfigCalls |->
        IF t[1] = "getCategories" THEN Launch(ConfigCfg(t))
        ELSE NotStarted(ConfigCfg(t))]

InitConfig ==
    /\ cmd = NotStarted(get_device_info(TRUE))
    /\ meta = MetaStart(FALSE)
    /\ call = NoCall
    /\ \E device \in Devices :
          /\ tasks = ConfigTasks(device)
          /\ agg = [fn |-> "aggregate_config", pc |-> "categories", device |-> device,
                    category_keys |-> <<>>, config_tree |-> <<>>, i |-> 0,
                    phase |-> "none", category |-> PyNone, command_keys |-> <<>>,
                    gather_exc |-> NoExc, result |-> PyNone, exc |-> NoExc,
                    faults |-> 0]

\* the for loop comes to category number i: past the last one it returns
\* config_tree, otherwise it starts get_category and list_commands in a gather
ForCategory(a, ts, i) ==
    IF i > Len(a.category_keys)
    THEN [agg |-> [a EXCEPT !.pc = "returned", !.i = i, !.result = a.config_tree],
          tasks |-> ts]
    ELSE [agg |-> [a EXCEPT !.pc = "gather", !.phase = "category", !.i = i],
          tasks |-> [ts EXCEPT
                        ![<<"getCategory", a.category_keys[i]>>] = Launch(@.cfg),
                        ![<<"getCommands", a.category_keys[i]>>] = Launch(@.cfg)]]

\* list_categories gets its answer; it is awaited directly, so its result
\* or its exception is that of the await
CategoriesAnswer ==
    /\ tasks[<<"getCategories">>].pc = "wait"
    /\ \E resp \in ConfigAnswers(<<"getCategories">>, agg.device) :
          LET c == Answer(tasks[<<"getCategories">>], resp)
              ts == [tasks EXCEPT ![<<"getCategories">>] = c]
              a == [agg EXCEPT !.faults = @ + Fault(resp)]
              next == ForCategory([a EXCEPT !.category_keys = c.value.v], ts, 1)
          IN  /\ agg.faults + Fault(resp) <= MaxFaults
              /\ tasks' = IF c.pc = "returned" THEN next.tasks ELSE ts
              /\ agg' = IF c.pc = "returned" THEN next.agg
                        ELSE IF c.pc = "raised"
                             THEN [a EXCEPT !.pc = "raised", !.exc = c.exc]
                             ELSE a
    /\ UNCHANGED <<cmd, meta, call>>

\* the gather of get_category and list_commands returns: the AggCategory is
\* made and one handle_command_key per command key is started in a gather;
\* without command keys that gather is over at once
CategoryGatherDone ==
    /\ agg.pc = "gather"
    /\ agg.phase = "category"
    /\ agg.gather_exc = NoExc
    /\ LET category_key == agg.category_keys[agg.i]
           category_raw == tasks[<<"getCategory", category_key>>]
           command_keys == tasks[<<"getCommands", category_key>>]
           category == AggCategory(category_key,
                                   DictGet(category_raw.value, "description", PyStr(<<>>)),
                                   <<>>)
           next == ForCategory([agg EXCEPT
                                   !.category = category,
                                   !.command_keys = command_keys.value.v,
                                   !.config_tree = DictSet(@, category_key, category)],
                               tasks, agg.i + 1)
       IN  /\ category_raw.pc = "returned"
           /\ command_keys.pc = "returned"
           /\ IF command_keys.value.v = <<>>
              THEN agg' = next.agg /\ tasks' = next.tasks
              ELSE /\ agg' = [agg EXCEPT !.phase = "commands",
                                         !.category = category,
                                         !.command_keys = command_keys.value.v]
                   /\ tasks' = [t \in ConfigCalls |->
                                   IF /\ t[1] = "getCommand"
                                      /\ t[2] = category_key
                                      /\ t[3] \in Range(command_keys.value.v)
                                   THEN Launch(tasks[t].cfg)
                                   ELSE tasks[t]]
    /\ UNCHANGED <<cmd, meta, call>>

\* get_command of a handle_command_key gets its answer; once it has
\* returned the descriptor is stored in the object `category` is bound to
CommandAnswer(t) ==
    /\ tasks[t].pc = "wait"
    /\ \E resp \in ConfigAnswers(t, agg.device) :
          LET c == Answer(tasks[t], resp)
          IN  /\ agg.faults + Fault(resp) <= MaxFaults
              /\ tasks' = [tasks EXCEPT ![t] = c]
              /\ agg' = [agg EXCEPT
                            !.faults = @ + Fault(resp),
                            !.gather_exc = FirstRaise(@, c),
                            !.category = IF c.pc = "returned"
                                         THEN StoreCommand(@, t[3], c.value)
                                         ELSE @]
    /\ UNCHANGED <<cmd, meta, call>>

\* the gather of the handle_command_key calls returns:
\* config_tree[category_key] = category, and the loop goes on
CommandsGatherDone ==
    /\ agg.pc = "gather"
    /\ agg.phase = "commands"
    /\ agg.gather_exc = NoExc
    /\ LET category_key == agg.category_keys[agg.i]
           next == ForCategory([agg EXCEPT
                                   !.config_tree = DictSet(@, category_key, agg.category)],
                               tasks, agg.i + 1)
       IN  /\ \A k \in Range(agg.command_keys) :
                 tasks[<<"getCommand", category_key, k>>].pc = "returned"
           /\ agg' = next.agg
           /\ tasks' = next.tasks
    /\ UNCHANGED <<cmd, meta, call>>

NextConfig ==
    \/ \E t \in ConfigCalls : TaskWake(t)
    \/ CategoriesAnswer
    \/ \E t \in CategoryCalls : TaskAnswer(t, ConfigAnswers(t, agg.device))
    \/ GatherRaised
    \/ CategoryGatherDone
    \/ \E t \in CommandCalls : CommandAnswer(t)
    \/ CommandsGatherDone

SpecConfig == InitConfig /\ [][NextConfig]_vars

(***************************************************************************)
(* Properties of aggregate_config.                                         *)
(***************************************************************************)
\* the entry of category c as the device describes it
DeviceCategory(device, c) ==
    AggCategory(c,
                IF device.described[c] THEN PyStr(<<c>>) ELSE PyStr(<<>>),
                [k \in Range(device.commands[c]) |-> CommandOf(k)])

\* the commands of an AggCategory are among those its category lists
OnlyListedCommands(category) ==
    \A k \in DOMAIN category.commands :
        /\ k \in Range(agg.device.commands[category.key])
        /\ category.commands[k] = CommandOf(k)

\* C18: the mapping aggregate_config returns has exactly the keys of
\* list_categories; each entry has its own key, the description of
\* get_category ("" if absent) and exactly the commands of list_commands,
\* each with the descriptor of get_command; and at no moment of any
\* interleaving is a command stored under a category that did not list it.
C18_ConfigTreeShape ==
    /\ (agg.pc = "returned") =>
          /\ DOMAIN agg.result = Range(agg.device.categories)
          /\ \A c \in DOMAIN agg.result : agg.result[c] = DeviceCategory(agg.device, c)
    /\ \A c \in DOMAIN agg.config_tree :
          agg.config_tree[c].key = c /\ OnlyListedCommands(agg.config_tree[c])
    /\ (agg.category # PyNone) => OnlyListedCommands(agg.category)

C18_Witness ==
    /\ agg.pc = "returned"
    /\ agg.faults = 0
    /\ DOMAIN agg.result = {"c1", "c2"}
    /\ DOMAIN agg.result["c1"].commands = {"k1"}
    /\ DOMAIN agg.result["c2"].commands = {"k1", "k2"}
    /\ agg.result["c2"].description = PyStr(<<>>)

Started(t) == tasks[t].pc # "idle"

\* C19: no getCategory or getCommands call is started before getCategories
\* has returned, no getCommand call of a category before the getCommands
\* call of that category has returned; getCategory and getCommands of a
\* category are started together, and so are the getCommand calls of a
\* category.
C19_PhasesInSequence ==
    /\ \A t \in CategoryCalls :
          Started(t) => tasks[<<"getCategories">>].pc = "returned"
    /\ \A t \in CommandCalls :
          Started(t) => tasks[<<"getCommands", t[2]>>].pc = "returned"
    /\ \A c \in CategoryKeys :
          Started(<<"getCategory", c>>) <=> Started(<<"getCommands", c>>)
    /\ \A t \in CommandCalls :
          Started(t) =>
              \A k \in Range(tasks[<<"getCommands", t[2]>>].value.v) :
                  Started(<<"getCommand", t[2], k>>)

\* the two getCommand requests of a category are in flight together
C19_Witness ==
    /\ tasks[<<"getCommand", "c2", "k1">>].pc = "wait"
    /\ tasks[<<"getCommand", "c2", "k2">>].pc = "wait"
    /\ tasks[<<"getCategories">>].pc = "returned"
    /\ tasks[<<"getCommands", "c2">>].pc = "returned"
    /\ tasks[<<"getCategory", "c1">>].pc = "returned"

\* C20: once the aggregator has raised the error of a member of a gather,
\* the other members are abandoned: none issues a further request, none
\* stores a descriptor.
C20_SiblingsAbandoned ==
    [][(agg.pc = "raised") =>
          /\ \A t \in ConfigCalls : tasks'[t].requests = tasks[t].requests
          /\ agg'.category = agg.category]_vars

(***************************************************************************)
(* The query parameters of the requests of one _command call.  The clock   *)
(* `now` counts half seconds; time passes while the call sleeps.           *)
(***************************************************************************)
\* the clock reads at most MaxNow half seconds when the call is made
MaxNow == 5

\* str(n) for n >= 0
RECURSIVE PyStrOf(_)
PyStrOf(n) ==
    LET digit(d) == <<"0", "1", "2", "3", "4", "5", "6", "7", "8", "9">>[d + 1]
    IN  IF n < 10 THEN <<digit(n)>> ELSE PyStrOf(n \div 10) \o <<digit(n % 10)>>

\* a variant in which final_params is another name of the caller's mapping
ParamsCopy_Alias(store) == [store |-> store, final_params |-> "params"]

\* final_params = params.copy(): final_params names a new mapping with the
\* entries of the caller's
ParamsCopy(store) ==
    [store |-> [store EXCEPT !["copy"] = store["params"]], final_params |-> "copy"]

\* if params is None: params = {}; final_params = params.copy();
\* final_params["command"] = command; final_params["_"] = str(int(time.time())):
\* the caller's mapping and the query after these statements
FinalParams(params, command, now) ==
    LET c == ParamsCopy([o \in {"params", "copy"} |-> IF o = "params" THEN params ELSE <<>>])
        with_command == [c.store EXCEPT ![c.final_params] = DictSet(@, "command", PyStr(command))]
        with_stamp == [with_command EXCEPT
                          ![c.final_params] = DictSet(@, "_", PyStr(PyStrOf(now \div 2)))]
    IN  [params |-> with_stamp["params"], final_params |-> with_stamp[c.final_params]]

\* the params mappings the accessors and other callers pass
CallerParams ==
    { <<>>,
      DictSet(<<>>, "value", PyStr(<<"c", "1">>)),
      DictSet(DictSet(<<>>, "command", PyStr(<<"x">>)), "_", PyStr(<<"9">>)) }

\* _command("ai", command="getDeviceStatus", ...) is called at time `now`;
\* final_params is built before the loop
InitStamp ==
    /\ \E now \in 0..MaxNow, attempts \in 1..MaxAttempts, retry_delay \in 1..MaxRetryDelay,
          params \in CallerParams :
          LET built == FinalParams(params, <<"getDeviceStatus">>, now)
          IN  /\ cmd = CommandStart(Cfg(FALSE, "dict", FALSE, attempts, retry_delay, NoFallback))
              /\ call = [fn |-> "_command", now |-> now, called_at |-> now,
                         passed |-> params, params |-> built.params,
                         final_params |-> built.final_params,
                         sent |-> <<>>]
    /\ tasks = TasksStart(FALSE)
    /\ meta = MetaStart(FALSE)
    /\ agg = NoAgg

\* await asyncio.sleep(attempt_idx * retry_delay): that much time passes
StampSleep ==
    /\ CanSleep(cmd)
    /\ cmd.requests < MaxRequests
    /\ cmd' = DoSleep(cmd)
    /\ call' = [call EXCEPT !.now = @ + 2 * Backoff(cmd.attempt_idx, cmd.cfg.retry_delay)]
    /\ UNCHANGED <<tasks, meta, agg>>

\* self._client.get(url, params=final_params)
StampGet ==
    /\ CanGet(cmd)
    /\ cmd' = DoGet(cmd)
    /\ call' = [call EXCEPT !.sent = Append(@, call.final_params)]
    /\ UNCHANGED <<tasks, meta, agg>>

NextStamp == StampSleep \/ StampGet \/ Respond \/ Exhaust

SpecStamp == InitStamp /\ [][NextStamp]_vars

\* C21: every request carries `command` and `_`, and the `_` values of the
\* successive requests increase strictly: no two requests, a retry and the
\* attempt before it included, carry the same `_`.
C21_StampsIncrease ==
    /\ \A i \in 1..Len(call.sent) : {"command", "_"} \subseteq DOMAIN call.sent[i]
    /\ \A i \in 1..Len(call.sent) : \A j \in 1..Len(call.sent) :
          (i < j) => DigitsValue(call.sent[i]["_"].v) < DigitsValue(call.sent[j]["_"].v)

\* C29: a _command call issues at most `attempts` requests under every
\* sequence of outcomes, the transport error included, and then terminates.
C29_AtMostAttemptsRequests ==
    /\ cmd.requests <= cmd.cfg.attempts
    /\ Len(cmd.sleeps) <= cmd.cfg.attempts

\* C30: when attempt k is the first to succeed after k-1 retryable failures,
\* the call returns the value of that answer after exactly k requests and
\* the sleeps 0, retry_delay, ..., (k-1)*retry_delay, and value_on_err is
\* not invoked.
C30_SuccessAfterRetries ==
    ("ok" \in cmd.seen) =>
        /\ cmd.pc = "returned"
        /\ cmd.value = Once(cmd.cfg, cmd.last_resp, cmd.requests).value
        /\ cmd.fallback_calls = 0
        /\ cmd.requests = cmd.attempt_idx + 1
        /\ Len(cmd.sleeps) = cmd.requests
        /\ LinearSleeps(cmd)

(***************************************************************************)
(* UserConfigEntity.available over the polls of the config coordinator.    *)
(* The coordinator is the host's DataUpdateCoordinator built in            *)
(* Shared.__init__ with update_method=self._fetch_config: it starts with   *)
(* last_update_success = True and data = None; a poll that returns stores  *)
(* the AggConfig and sets last_update_success, a poll that raises clears   *)
(* last_update_success and keeps the data.                                 *)
(***************************************************************************)
\* polls of the config coordinator in one run
MaxPolls == 5

\* return (self.coordinator.last_update_success
\*         and self.coordinator.data is not None)
available_Truthy(coordinator) ==
    coordinator.last_update_success /\ Truthy(coordinator.data)

available(coordinator) ==
    coordinator.last_update_success /\ coordinator.data # PyNone

\* what aggregate_config returns for the devices of the model
ConfigResults ==
    { PyDict(<<>>),
      PyDict([c \in {"c1"} |-> AggCategory("c1", PyStr(<<"d">>), <<>>)]),
      PyDict([c \in {"c1", "c2"} |-> AggCategory(c, PyStr(<<>>), <<>>)]) }

InitAvail ==
    /\ cmd = NotStarted(get_device_info(TRUE))
    /\ tasks = TasksStart(FALSE)
    /\ meta = MetaStart(FALSE)
    /\ agg = NoAgg
    /\ call = [fn |-> "config_coord", last_update_success |-> TRUE,
               data |-> PyNone, polls |-> <<>>]

\* _fetch_config returned the AggConfig of aggregate_config
ConfigPollSucceeded ==
    /\ call.fn = "config_coord"
    /\ Len(call.polls) < MaxPolls
    /\ \E result \in ConfigResults :
          call' = [call EXCEPT !.last_update_success = TRUE, !.data = result,
                               !.polls = Append(@, "ok")]
    /\ UNCHANGED <<cmd, tasks, meta, agg>>

\* _fetch_config raised
ConfigPollFailed ==
    /\ call.fn = "config_coord"
    /\ Len(call.polls) < MaxPolls
    /\ call' = [call EXCEPT !.last_update_success = FALSE,
                            !.polls = Append(@, "failed")]
    /\ UNCHANGED <<cmd, tasks, meta, agg>>

NextAvail == ConfigPollSucceeded \/ ConfigPollFailed

SpecAvail == InitAvail /\ [][NextAvail]_vars

\* C23: a UserConfigEntity is available iff the coordinator's last update
\* succeeded and its data is not None; after any sequence of successful and
\* failed polls it is unavailable exactly while the most recent poll failed
\* or no poll has stored data yet.
C23_AvailableIffFreshData ==
    LET n == Len(call.polls)
        last_failed == n > 0 /\ call.polls[n] = "failed"
        never_stored == \A i \in 1..n : call.polls[i] # "ok"
    IN  /\ available(call) <=> (call.last_update_success = TRUE /\ call.data.t # "NoneType")
        /\ ~available(call) <=> (last_failed \/ never_stored)
        /\ never_stored <=> (call.data = PyNone)

\* an empty configuration was stored, then a poll failed, then one succeeded
C23_Witness ==
    /\ Len(call.polls) = MaxPolls
    /\ call.polls[MaxPolls - 1] = "failed"
    /\ call.polls[MaxPolls] = "ok"
    /\ call.data = PyDict(<<>>)
    /\ available(call)

\* an AuthenticationFailed was raised inside the aggregator call
AuthFailedInside(members) ==
    \E t \in members : tasks[t].pc = "raised" /\ tasks[t].exc.kind = "AuthenticationFailed"

\* C22: an AuthenticationFailed raised anywhere inside the aggregator call,
\* with or without fallbacks, reaches the host as ConfigEntryAuthFailed;
\* every other failure passes through detect_auth_failed unchanged and is
\* never reported as an authentication failure.
C22_AuthFailureSurfaced ==
    (call.fn = "_fetch_state") =>
        /\ AuthFailedInside(StateMembers) => call.exc.kind = "ConfigEntryAuthFailed"
        /\ (call.exc.kind = "ConfigEntryAuthFailed") => agg.exc.kind = "AuthenticationFailed"
        /\ (call.exc.kind # "ConfigEntryAuthFailed") => call.exc = agg.exc

\* api_version is at least (1, 7, 0) in the lexicographic order of tuples,
\* where a missing component is below every number
AtLeast170(v) ==
    LET part(i) == IF i <= Len(v) THEN v[i] ELSE -1
    IN  \/ part(1) > 1
        \/ part(1) = 1 /\ part(2) > 7
        \/ part(1) = 1 /\ part(2) = 7 /\ part(3) >= 0

\* C24: supports_update_status is true exactly when api_version >= (1, 7, 0)
\* lexicographically, and the update poll is given that flag: a device below
\* (1, 7, 0), (1, 7) and the empty tuple included, never receives
\* getUpdateStatus.
C24_UpdateStatusGate ==
    /\ agg.supports_update_status <=> AtLeast170(agg.api_version)
    /\ ~AtLeast170(agg.api_version) =>
          /\ tasks["update"].pc = "idle"
          /\ tasks["update"].requests = 0
    /\ AtLeast170(agg.api_version) => tasks["update"].pc # "idle"

C24_Witness ==
    /\ agg.api_version = <<>>
    /\ agg.pc = "returned"
    /\ tasks["update"].requests = 0
    /\ tasks["hh_fw_version"].requests >= 1
    /\ tasks["ai_fw_version"].requests >= 1

\* C25: list_categories accepts an empty list on the first attempt, without
\* retry and without error, and aggregate_config then returns the empty
\* mapping after exactly one request.
C25_NoCategories ==
    LET c == tasks[<<"getCategories">>]
    IN  (c.requests = 1 /\ c.last_resp = Http(200, JsonBody(PyList(<<>>)))) =>
            /\ c.pc = "returned"
            /\ c.value = PyList(<<>>)
            /\ c.sleeps = <<0>>
            /\ c.seen = {"ok"}
            /\ agg.pc = "returned"
            /\ agg.result = <<>>
            /\ \A t \in ConfigCalls \ {<<"getCategories">>} :
                  tasks[t].pc = "idle" /\ tasks[t].requests = 0

C25_Witness ==
    /\ agg.device.categories = <<>>
    /\ agg.pc = "returned"
    /\ agg.result = <<>>
    /\ tasks[<<"getCategories">>].requests = 1

\* the device commands the aggregate_state call has requested so far
StateRequests == { StateCommand(t) : t \in { m \in StateMembers : tasks[m].requests > 0 } }

\* C28: every AggState has zh_mode = -1, and aggregate_state never issues a
\* getZHMode request.
C28_ZhModeNeverProbed ==
    /\ (agg.pc = "returned") => agg.result.zh_mode = -1
    /\ (call.fn = "_fetch_state" /\ call.exc = NoExc) => call.data.zh_mode = -1
    /\ "getZHMode" \notin StateRequests
    /\ (agg.pc = "returned") =>
          StateRequests = {"getDeviceStatus", "getLastPUSHNotifications", "getEcoInfo"}

C28_Witness ==
    /\ call.fn = "_fetch_state"
    /\ call.data # PyNone
    /\ call.data.zh_mode = -1
    /\ call.data.notifications = PyList(<<>>)
    /\ agg.faults > 0

(***************************************************************************)
(* The objects the aggregators build.  The heap is the sequence of the     *)
(* containers created so far; a reference is an index into it.             *)
(***************************************************************************)
\* aggregator calls made on one client in a run
MaxCalls == 2

\* a container holding v is created
New(heap, v) == [heap |-> Append(heap, v), ref |-> Len(heap) + 1]

\* a variant with one default object per value, handed out on every fallback
CallFallback_SharedDefault(heap, default) ==
    IF \E i \in 1..Len(heap) : heap[i] = default
    THEN [heap |-> heap, ref |-> CHOOSE i \in 1..Len(heap) : heap[i] = default]
    ELSE New(heap, default)

\* return value_on_err(): the lambda builds its value when it is called
CallFallback(heap, default) == New(heap, default)

\* the members of the gather of aggregate_state and aggregate_update_status
FreshMembers(fn) ==
    IF fn = "aggregate_state" THEN <<"device", "notifications", "eco_info">>
    ELSE <<"update", "ai_fw_version", "hh_fw_version">>

\* one accessor call: resp.json() builds the answer; on "fallback" the
\* value_on_err lambda is called; on "zero" get_eco_info drops the decoded
\* answer and returns EcoInfo()
FetchMember(heap, m, outcome) ==
    LET default == IF m = "notifications" THEN PyList(<<>>) ELSE PyDict(<<>>)
        answer == IF m = "notifications" THEN PyList(<<PyInt(1)>>)
                  ELSE PyDict([total |-> PyInt(IF outcome = "zero" THEN 0 ELSE 1)])
    IN  CASE outcome = "fallback" -> CallFallback(heap, default)
          [] outcome = "zero" -> New(New(heap, answer).heap, PyDict(<<>>))
          [] OTHER -> New(heap, answer)

\* aggregate_state, aggregate_update_status: every member is fetched, then
\* the result object is built from the members' values
RECURSIVE GatherMembers(_, _, _, _)
GatherMembers(heap, members, outcomes, refs) ==
    IF members = <<>>
    THEN LET root == New(heap, PyDict(refs))
         IN  [heap |-> root.heap, root |-> root.ref, objs |-> {refs[m] : m \in DOMAIN refs} \cup {root.ref}]
    ELSE LET r == FetchMember(heap, Head(members), outcomes[Head(members)])
         IN  GatherMembers(r.heap, Tail(members), outcomes,
                           DictSet(refs, Head(members), r.ref))

\* aggregate_config: config_tree = {}; per category commands={} and an
\* AggCategory are built and config_tree[category_key] = category is stored
RECURSIVE BuildTree(_, _, _, _)
BuildTree(heap, config_tree, category_keys, objs) ==
    IF category_keys = <<>> THEN [heap |-> heap, root |-> config_tree, objs |-> objs]
    ELSE LET commands == New(heap, PyDict(<<>>))
             category == New(commands.heap,
                             AggCategory(Head(category_keys), PyStr(<<>>), commands.ref))
             stored == [category.heap EXCEPT
                           ![config_tree] = PyDict(DictSet(@.v, Head(category_keys),
                                                           category.ref))]
         IN  BuildTree(stored, config_tree, Tail(category_keys),
                       objs \cup {commands.ref, category.ref})

\* what one aggregator call leaves on the heap and returns
AggregatorCall(heap, fn, input) ==
    IF fn = "aggregate_config"
    THEN LET config_tree == New(heap, PyDict(<<>>))
         IN  BuildTree(config_tree.heap, config_tree.ref, input, {config_tree.ref})
    ELSE GatherMembers(heap, FreshMembers(fn), input, <<>>)

\* the inputs of an aggregator call: the category keys of the device, or
\* the outcome of every member
AggregatorInputs(fn) ==
    IF fn = "aggregate_config" THEN {<<>>, <<"c1">>, <<"c1", "c2">>}
    ELSE { o \in [Range(FreshMembers(fn)) -> {"answer", "fallback", "zero"}] :
              \A m \in DOMAIN o : (o[m] = "zero") => (m = "eco_info") }

InitFresh ==
    /\ cmd = NotStarted(get_device_info(TRUE))
    /\ tasks = TasksStart(FALSE)
    /\ meta = MetaStart(FALSE)
    /\ agg = NoAgg
    /\ call = [fn |-> "client", heap |-> <<>>, snapshots |-> <<>>]

\* one aggregator call runs and returns; the host keeps the snapshot
Aggregate ==
    /\ call.fn = "client"
    /\ Len(call.snapshots) < MaxCalls
    /\ \E fn \in {"aggregate_state", "aggregate_update_status", "aggregate_config"} :
          \E input \in AggregatorInputs(fn) :
             LET r == AggregatorCall(call.heap, fn, input)
             IN  call' = [call EXCEPT
                             !.heap = r.heap,
                             !.snapshots = Append(@, [fn |-> fn, root |-> r.root,
                                                      objs |-> r.objs,
                                                      returned |-> [o \in r.objs |-> r.heap[o]]])]
    /\ UNCHANGED <<cmd, tasks, meta, agg>>

SpecFresh == InitFresh /\ [][Aggregate]_vars

\* C27: each aggregator call builds a fresh result: two calls never share a
\* container, a fallback value is a new object on every fallback, and a
\* later call never changes a snapshot returned by an earlier call.
C27_FreshResults ==
    (call.fn = "client") =>
        /\ \A i \in 1..Len(call.snapshots) : \A j \in 1..Len(call.snapshots) :
              (i # j) => call.snapshots[i].objs \cap call.snapshots[j].objs = {}
        /\ \A i \in 1..Len(call.snapshots) : \A o \in call.snapshots[i].objs :
              call.heap[o] = call.snapshots[i].returned[o]

\* two state polls whose members all fell back
C27_Witness ==
    /\ call.fn = "client"
    /\ Len(call.snapshots) = 2
    /\ \A i \in 1..2 :
          /\ call.snapshots[i].fn = "aggregate_state"
          /\ \A o \in call.snapshots[i].objs \ {call.snapshots[i].root} :
                call.heap[o] \in {PyDict(<<>>), PyList(<<>>)}

\* C31: in raw mode a 2xx answer is returned as its text on that attempt:
\* nothing is decoded or repaired, expected_type and reject_empty are not
\* applied, so an empty or non-JSON body is a result and is never retried.
C31_RawReturnsText ==
    cmd.cfg.raw =>
        /\ cmd.seen \cap {"validation", "decode", "other"} = {}
        /\ (cmd.last_resp.kind = "http" /\ IsSuccess(cmd.last_resp.status)) =>
              /\ cmd.pc = "returned"
              /\ cmd.value = PyStr(cmd.last_resp.body.text)
              /\ cmd.fallback_calls = 0
              /\ cmd.exc = NoExc

\* an empty body is the result of a raw call that rejects empty dicts,
\* on the retry after a 5xx
C31_Witness ==
    /\ cmd.cfg.raw
    /\ cmd.cfg.reject_empty
    /\ cmd.cfg.expected_type = "dict"
    /\ cmd.seen = {"5xx", "ok"}
    /\ cmd.requests = 2
    /\ cmd.pc = "returned"
    /\ cmd.value = PyStr(<<>>)

\* C36: a call with attempts <= 0 issues no request and performs no sleep:
\* it returns value_on_err() when a fallback is supplied and otherwise
\* raises the placeholder ValueError "no attempts made".
C36_NoAttempts ==
    (cmd.cfg.attempts <= 0) =>
        /\ cmd.requests = 0
        /\ cmd.sleeps = <<>>
        /\ cmd.seen = {}
        /\ cmd.pc \in {"loop", "returned", "raised"}
        /\ (cmd.pc = "returned") =>
              /\ HasFallback(cmd)
              /\ cmd.value = cmd.cfg.value_on_err
              /\ cmd.fallback_calls = 1
        /\ (cmd.pc = "raised") =>
              /\ ~HasFallback(cmd)
              /\ cmd.exc = Exc("ValueError", 0, "no attempts made", 0)

C36_Witness ==
    /\ cmd.cfg.attempts = -1
    /\ cmd.pc = "raised"
    /\ cmd.exc.kind = "ValueError"
    /\ cmd.requests = 0

\* C37: _command never modifies the params mapping of the caller; the query
\* of every attempt of one call is the same mapping, the caller's entries
\* plus `command` and `_` (these two overriding caller entries of the same
\* name), computed once before the first attempt.
C37_ParamsUntouched ==
    (call.fn = "_command") =>
        /\ call.params = call.passed
        /\ \A i \in 1..Len(call.sent) : call.sent[i] = call.final_params
        /\ DOMAIN call.final_params = DOMAIN call.passed \cup {"command", "_"}
        /\ \A k \in DOMAIN call.final_params :
              call.final_params[k] =
                  IF k = "command" THEN PyStr(<<"getDeviceStatus">>)
                  ELSE IF k = "_" THEN PyStr(PyStrOf(call.called_at \div 2))
                  ELSE call.passed[k]

\* the caller passed entries named `command` and `_`; two attempts were made
C37_Witness ==
    /\ call.fn = "_command"
    /\ {"command", "_"} \subseteq DOMAIN call.passed
    /\ call.passed["command"] # call.final_params["command"]
    /\ Len(call.sent) = 2
    /\ call.now > call.called_at

\* C32: device_fetched_at is the time at which the device-status fetch
\* completes, after its last attempt or its fallback, whenever the other two
\* fetches complete: never earlier than that completion and never later
\* than the return of aggregate_state.
C32_FetchedAtCompletion ==
    (agg.fn = "aggregate_state") =>
        /\ (tasks["device"].pc = "returned") =>
              /\ agg.device_fetched_at = agg.done_at["device"]
        /\ (tasks["device"].pc # "returned") => agg.device_fetched_at = -1
        /\ (agg.pc = "returned") =>
              /\ agg.result.device_fetched_at = agg.done_at["device"]
              /\ agg.result.device_fetched_at <= agg.returned_at
              /\ agg.result.device_fetched_at >= 1

\* the device status fell back before the notifications were fetched
C32_Witness ==
    /\ agg.fn = "aggregate_state"
    /\ agg.pc = "returned"
    /\ FellBack(tasks["device"])
    /\ agg.result.device_fetched_at < agg.done_at["notifications"]
    /\ agg.result.device_fetched_at > agg.done_at["eco_info"]
    /\ agg.result.device_fetched_at < agg.returned_at

\* the update status of the snapshot has the status "idle" or none
StatusIdleOrAbsent(update) ==
    \/ "status" \notin DOMAIN update.v
    \/ update.v["status"] = PyStr(<<"i", "d", "l", "e">>)

\* C33: after every update poll that returns, the polling interval of the
\* update coordinator is the idle interval (6 hours) exactly when the
\* fetched update status is "idle" or absent (devices without update status
\* and fallback-empty results included) and the active interval (5 seconds)
\* otherwise; a poll that raises leaves the interval unchanged.
C33_PollingInterval ==
    (call.fn = "_fetch_update") =>
        /\ (agg.pc = "returned") =>
              /\ call.exc = NoExc
              /\ call.update_interval =
                     IF StatusIdleOrAbsent(call.data.update) THEN 6 * 60 * 60 ELSE 5
              /\ ~agg.supports_update_status => call.update_interval = 6 * 60 * 60
              /\ FellBack(tasks["update"]) => call.update_interval = 6 * 60 * 60
        /\ (agg.pc = "raised") =>
              /\ call.exc # NoExc
              /\ call.update_interval = call.interval_before

\* a poll that found a download in progress while the interval was idle
C33_Witness ==
    /\ call.fn = "_fetch_update"
    /\ agg.pc = "returned"
    /\ call.interval_before = UPDATE_COORD_IDLE_INTERVAL
    /\ call.update_interval = UPDATE_COORD_ACTIVE_INTERVAL
    /\ call.data.update.v["status"] = PyStr(<<"d", "o", "w", "n">>)

(***************************************************************************)
(* Shared: the first refresh and the polls of the three coordinators.      *)
(* Each fetch is one step whose outcome follows from what the endpoints do *)
(* and from the default_on_error it passes.                                *)
(***************************************************************************)
\* the awaits of async_config_entry_first_refresh, in the order of the code
FirstRefreshSteps == <<"meta", "state", "update", "config", "post">>

\* what the device does during a fetch: every endpoint answers, an endpoint
\* fetched with the default_on_error of the call keeps answering 5xx, an
\* endpoint answers 401, the device is unreachable (DoGet retries a
\* TransportError without counting the attempt)
Endpoints == {"ok", "fails", "unauthorized", "unreachable"}

\* a variant that polls the state with fallbacks from the start
DefaultOnError_Always(step, first_refresh_done) ==
    step \in {"state", "update"}

\* the default_on_error of aggregate_meta(), of
\* aggregate_state(default_on_error=self._first_refresh_done), of
\* aggregate_update_status(default_on_error=True) and of aggregate_config()
DefaultOnError(step, first_refresh_done) ==
    CASE step = "state" -> first_refresh_done
      [] step = "update" -> TRUE
      [] OTHER -> FALSE

\* how a fetch under detect_auth_failed ends
PollOutcome(default_on_error, endpoint) ==
    CASE endpoint = "ok" -> "returned"
      [] endpoint = "unauthorized" -> "ConfigEntryAuthFailed"
      [] endpoint = "unreachable" -> "hung"
      [] OTHER -> IF default_on_error THEN "returned" ELSE "raised"

\* a variant that goes on with the next await whatever the outcome
AfterStep_Continue(step, outcome) ==
    CASE step = "meta" -> "state"
      [] step = "state" -> "update"
      [] step = "update" -> "config"
      [] step = "config" -> "post"
      [] OTHER -> "ready"

\* an await of async_config_entry_first_refresh that raises ends the
\* coroutine; otherwise the next statement runs
AfterStep(step, outcome) ==
    IF outcome = "hung" THEN "hung"
    ELSE IF outcome # "returned" THEN "failed"
    ELSE CASE step = "meta" -> "state"
           [] step = "state" -> "update"
           [] step = "update" -> "config"
           [] step = "config" -> "post"
           [] OTHER -> "ready"

\* Shared.__init__: _first_refresh_done = False, meta not set
InitShared ==
    /\ cmd = NotStarted(get_device_info(TRUE))
    /\ tasks = TasksStart(FALSE)
    /\ meta = MetaStart(FALSE)
    /\ agg = NoAgg
    /\ call = [fn |-> "Shared", pc |-> "meta", meta_set |-> FALSE,
               first_refresh_done |-> FALSE, log |-> <<>>, polls |-> 0]

\* the next await of async_config_entry_first_refresh: aggregate_meta, the
\* first refresh of the state, update and config coordinator, then
\* _post_first_refresh, which sets _first_refresh_done as its last statement
FirstRefreshStep ==
    /\ call.fn = "Shared"
    /\ call.pc \in Range(FirstRefreshSteps)
    /\ \E endpoint \in Endpoints :
          LET step == call.pc
              default_on_error == DefaultOnError(step, call.first_refresh_done)
              outcome == IF step # "post" THEN PollOutcome(default_on_error, endpoint)
                         ELSE IF endpoint = "ok" THEN "returned" ELSE "ConfigEntryNotReady"
          IN  /\ (step = "post") => endpoint \in {"ok", "fails"}
              /\ call' = [call EXCEPT
                            !.pc = AfterStep(step, outcome),
                            !.meta_set = @ \/ (step = "meta" /\ outcome = "returned"),
                            !.first_refresh_done = @ \/ (step = "post" /\ outcome = "returned"),
                            !.log = Append(@, [step |-> step, first |-> TRUE,
                                               default_on_error |-> default_on_error,
                                               endpoint |-> endpoint, outcome |-> outcome,
                                               meta_set |-> call.meta_set,
                                               done |-> call.first_refresh_done])]
    /\ UNCHANGED <<cmd, tasks, meta, agg>>

\* a coordinator whose first refresh succeeded polls again, on its interval
\* or on a requested refresh
PeriodicPoll(step) ==
    /\ call.fn = "Shared"
    /\ call.pc \notin {"failed", "hung"}
    /\ call.polls < MaxCalls
    /\ \E i \in 1..Len(call.log) :
          call.log[i].first /\ call.log[i].step = step /\ call.log[i].outcome = "returned"
    /\ \E endpoint \in Endpoints :
          LET default_on_error == DefaultOnError(step, call.first_refresh_done)
          IN  call' = [call EXCEPT
                          !.polls = @ + 1,
                          !.log = Append(@, [step |-> step, first |-> FALSE,
                                             default_on_error |-> default_on_error,
                                             endpoint |-> endpoint,
                                             outcome |-> PollOutcome(default_on_error, endpoint),
                                             meta_set |-> call.meta_set,
                                             done |-> call.first_refresh_done])]
    /\ UNCHANGED <<cmd, tasks, meta, agg>>

NextShared ==
    \/ FirstRefreshStep
    \/ \E step \in {"state", "update", "config"} : PeriodicPoll(step)

SpecShared == InitShared /\ [][NextShared]_vars

\* C34: a state poll made before the first refresh has completed runs
\* without fallbacks, so that an endpoint failure fails it, and every state
\* poll after it runs with fallbacks; the first-refresh-done flag is set
\* only after _post_first_refresh has succeeded, and once set it never
\* becomes false again.
C34_FallbacksAfterFirstRefresh ==
    (call.fn = "Shared") =>
        /\ \A i \in 1..Len(call.log) :
              (call.log[i].step = "state") =>
                  /\ call.log[i].default_on_error = call.log[i].done
                  /\ (~call.log[i].done /\ call.log[i].endpoint # "ok") =>
                         call.log[i].outcome # "returned"
                  /\ (call.log[i].done /\ call.log[i].endpoint = "fails") =>
                         call.log[i].outcome = "returned"
        /\ call.first_refresh_done <=>
              \E i \in 1..Len(call.log) :
                 call.log[i].step = "post" /\ call.log[i].outcome = "returned"
        /\ \A i \in 1..Len(call.log) :
              /\ call.log[i].done => call.first_refresh_done
              /\ \A j \in i..Len(call.log) : call.log[i].done => call.log[j].done
              /\ call.log[i].done =>
                    \E k \in 1..(i - 1) :
                       call.log[k].step = "post" /\ call.log[k].outcome = "returned"

\* a failing endpoint failed no state poll after the first refresh, and a
\* state poll had run without fallbacks before
C34_Witness ==
    /\ call.fn = "Shared"
    /\ call.first_refresh_done
    /\ \E i \in 1..Len(call.log), j \in 1..Len(call.log) :
          /\ call.log[i].step = "state" /\ call.log[i].first /\ ~call.log[i].default_on_error
          /\ call.log[j].step = "state" /\ call.log[j].default_on_error
          /\ call.log[j].endpoint = "fails" /\ call.log[j].outcome = "returned"

\* the awaits of the first refresh made so far
FirstRefreshLog ==
    LET IsFirst(e) == e.first IN SelectSeq(call.log, IsFirst)

\* C35: in async_config_entry_first_refresh the metadata is fetched to
\* completion before any coordinator poll starts, so no update poll reads
\* meta before it is set; the order is meta, state, update, config, then the
\* device-info setup, and a failure in any step prevents all later steps.
C35_FirstRefreshOrder ==
    (call.fn = "Shared") =>
        /\ Len(FirstRefreshLog) <= Len(FirstRefreshSteps)
        /\ \A i \in 1..Len(FirstRefreshLog) :
              /\ FirstRefreshLog[i].step = FirstRefreshSteps[i]
              /\ (i < Len(FirstRefreshLog)) => FirstRefreshLog[i].outcome = "returned"
        /\ \A i \in 1..Len(call.log) :
              (call.log[i].step # "meta") =>
                  /\ call.log[i].meta_set
                  /\ call.log[1].step = "meta" /\ call.log[1].outcome = "returned"
        /\ (call.pc \in {"failed", "hung"}) =>
              /\ FirstRefreshLog[Len(FirstRefreshLog)].outcome # "returned"
              /\ ~call.first_refresh_done
        /\ (call.pc = "ready") => Len(FirstRefreshLog) = Len(FirstRefreshSteps)

\* the update coordinator's first refresh met a 401: no config poll, no
\* device-info setup
C35_Witness ==
    /\ call.fn = "Shared"
    /\ call.pc = "failed"
    /\ Len(FirstRefreshLog) = 3
    /\ FirstRefreshLog[3].step = "update"
    /\ FirstRefreshLog[3].outcome = "ConfigEntryAuthFailed"
    /\ FirstRefreshLog[3].meta_set

=============================================================================
